---- MODULE Spec2Model ----
(***************************************************************************)
(* Model of the lrs-dashboard data pipeline scripts (src/scripts):         *)
(*   - validation.py        multi-source voting / LLM arbitration          *)
(*   - ai_data_pipeline.py  extract_and_validate, sheet auto-fill          *)
(*   - batch_extract.py     per-field aggregation of batch extraction      *)
(*   - update_database.py   auto-fill of simulant.json                     *)
(*   - update_composition_from_pdfs.py / update_database_full.py /         *)
(*     extract_from_specsheets.py / fix_mineral_duplicates.py              *)
(*                          composition tables, backups, rewrites          *)
(*   - populate_mineral_groups.py  aggregation into the NASA groups        *)
(*   - extractors/specsheet_extractor.py  layered composition extraction   *)
(*   - extractors/claude_extractor.py  extraction from several sources    *)
(*                                                                         *)
(* Python values are encoded as follows.  A str is the same TLA+ string;   *)
(* the Python None is the string "<None>".  A dict is a function whose     *)
(* DOMAIN is the set of keys.  A float is an IEEE-754 binary64 number      *)
(* held as a 53-bit mantissa in five base-2^13 limbs (least significant    *)
(* first) and a binary exponent, so that the rounding of / and * is the    *)
(* one CPython performs.                                                   *)
(***************************************************************************)
EXTENDS Integers, Sequences, FiniteSets, TLC

None == "<None>"

(***************************************************************************)
(* IEEE-754 binary64 arithmetic (positive normal numbers and zero).        *)
(* A float [m, e] with m = <<l1,..,l5>> denotes                            *)
(*     (l1 + l2*2^13 + l3*2^26 + l4*2^39 + l5*2^52) * 2^(e-52);            *)
(* normal numbers have l5 = 1.                                             *)
(***************************************************************************)
LimbBase == 2 ^ 13

HalfLimb == 2 ^ 12

FZero == [m |-> <<0, 0, 0, 0, 0>>, e |-> 0]

FOne == [m |-> <<0, 0, 0, 0, 1>>, e |-> 0]

IsZero(x) == x.m = <<0, 0, 0, 0, 0>>

\* carry propagation over raw column sums, least significant limb first
RECURSIVE Carry(_, _)
Carry(cols, c) ==
    IF cols = <<>> THEN IF c = 0 THEN <<>> ELSE <<c>>
    ELSE <<(Head(cols) + c) % LimbBase>>
         \o Carry(Tail(cols), (Head(cols) + c) \div LimbBase)

\* m + 1 on five limbs; a sixth limb cannot arise, the fifth may become 2
MantInc(m) ==
    LET s == Carry(<<m[1] + 1, m[2], m[3], m[4]>>, 0)
    IN  IF Len(s) = 5 THEN <<s[1], s[2], s[3], s[4], m[5] + s[5]>>
        ELSE <<s[1], s[2], s[3], s[4], m[5]>>

\* round-half-to-even of mantissa m given the guard bit and the sticky bit,
\* renormalising when the increment carries out to 2^53
RoundNearestEven(m, e, guard, sticky) ==
    LET up == guard /\ (sticky \/ m[1] % 2 = 1)
        r  == IF up THEN MantInc(m) ELSE m
    IN  IF r[5] >= 2 THEN [m |-> <<0, 0, 0, 0, 1>>, e |-> e + 1]
        ELSE [m |-> r, e |-> e]

\* the binary exponent of c/n: the e with 2^e <= c/n < 2^(e+1)
RECURSIVE RatioExp(_, _)
RatioExp(c, n) ==
    IF c < n THEN RatioExp(2 * c, n) - 1
    ELSE IF c >= 2 * n THEN RatioExp(c, 2 * n) + 1
    ELSE 0

RECURSIVE Pow2(_)
Pow2(k) == IF k = 0 THEN 1 ELSE 2 * Pow2(k - 1)

\* c / n for positive ints, correctly rounded (Python int true division)
FDiv(c, n) ==
    LET e  == RatioExp(c, n)
        cc == IF e < 0 THEN c * Pow2(0 - e) ELSE c
        nn == IF e > 0 THEN n * Pow2(e) ELSE n
        \* long division of cc * 2^52 by nn, most significant limb first
        q5 == cc \div nn
        r5 == cc % nn
        q4 == (r5 * LimbBase) \div nn
        r4 == (r5 * LimbBase) % nn
        q3 == (r4 * LimbBase) \div nn
        r3 == (r4 * LimbBase) % nn
        q2 == (r3 * LimbBase) \div nn
        r2 == (r3 * LimbBase) % nn
        q1 == (r2 * LimbBase) \div nn
        r1 == (r2 * LimbBase) % nn
    IN  IF 2 * r1 = nn
        THEN RoundNearestEven(<<q1, q2, q3, q4, q5>>, e, TRUE, FALSE)
        ELSE RoundNearestEven(<<q1, q2, q3, q4, q5>>, e, 2 * r1 > nn, TRUE)

\* raw column sums of the product of two five-limb mantissas
MulCols(a, b) ==
    [k \in 1..9 |->
        LET lo == IF k > 5 THEN k - 4 ELSE 1
            hi == IF k > 5 THEN 5 ELSE k
            term[i \in (lo - 1)..hi] ==
                IF i = lo - 1 THEN 0 ELSE term[i - 1] + a[i] * b[k + 1 - i]
        IN  term[hi]]

\* x * y, correctly rounded
FMul(x, y) ==
    IF IsZero(x) \/ IsZero(y) THEN FZero
    ELSE
    LET p  == Carry(MulCols(x.m, y.m), 0)
        p9 == IF Len(p) >= 9 THEN p[9] ELSE 0
        \* the product is p * 2^(x.e + y.e - 104), 2^104 <= p < 2^106
    IN  IF p9 >= 2
        THEN \* 54 significant bits above limb 4: shift one more bit
             RoundNearestEven(
                <<p[5] \div 2 + (p[6] % 2) * HalfLimb,
                  p[6] \div 2 + (p[7] % 2) * HalfLimb,
                  p[7] \div 2 + (p[8] % 2) * HalfLimb,
                  p[8] \div 2 + (p9 % 2) * HalfLimb,
                  p9 \div 2>>,
                x.e + y.e + 1,
                p[5] % 2 = 1,
                <<p[1], p[2], p[3], p[4]>> # <<0, 0, 0, 0>>)
        ELSE RoundNearestEven(
                <<p[5], p[6], p[7], p[8], p9>>,
                x.e + y.e,
                p[4] >= HalfLimb,
                <<p[1], p[2], p[3], p[4] % HalfLimb>> # <<0, 0, 0, 0>>)

\* lexicographic comparison of mantissas from the most significant limb
RECURSIVE MantLess(_, _, _)
MantLess(a, b, i) ==
    IF i = 0 THEN FALSE
    ELSE IF a[i] # b[i] THEN a[i] < b[i]
    ELSE MantLess(a, b, i - 1)

\* x < y
FLess(x, y) ==
    IF IsZero(y) THEN FALSE
    ELSE IF IsZero(x) THEN TRUE
    ELSE IF x.e # y.e THEN x.e < y.e
    ELSE MantLess(x.m, y.m, 5)

\* x >= y
FGeq(x, y) == ~FLess(x, y)

\* min(x, y) as Python computes it: y if y < x else x
FMin(x, y) == IF FLess(y, x) THEN y ELSE x


(***************************************************************************)
(* Dicts.                                                                  *)
(***************************************************************************)
EmptyDict == [k \in {} |-> None]

\* d.get(k, default)
Get(d, k, default) == IF k \in DOMAIN d THEN d[k] ELSE default

\* k.startswith('_') for the keys that occur
StartsWithUnderscore(k) == k \in {"_source", "_source_type"}

\* Python truthiness of the str / None values that occur
Truthy(v) == v \notin {None, ""}

(***************************************************************************)
(* State.                                                                  *)
(***************************************************************************)
VARIABLES
    tool,               \* the script that is running
    pc,                 \* its position
    files,              \* the data directory: file name -> content
    backups,            \* backup files written, in order: [name, content]
    database,           \* simulant.json as loaded: the list of simulant records
    extractions,        \* per-source extraction dicts of simulant S001, in order
    client,             \* DataValidator.client is set (API key present)
    llm,                \* what the arbitration call did
    validation_results, \* field -> aggregated result
    auto_fill,          \* get_auto_fillable_fields(validation_results)
    review_required,    \* get_review_required_fields(validation_results)
    sheet,              \* the simulant's row of the Google sheet
    idx,                \* batch_extract main: index of the next simulant
    all_results,        \* batch_extract main: results so far
    stats,              \* batch_extract main: the tally
    mode,               \* update_database main: sys.argv[1]
    auto_fills,         \* update_database main: analyze_changes()[0]
    conflicts,          \* update_database main: analyze_changes()[1]
    composition,        \* composition.json as loaded and updated in memory
    chemicals,          \* chemical_composition.json in memory
    mineral_groups,     \* mineral_groups.json in memory
    pending,            \* extracted documents not yet processed, in order
    aggregated_data,    \* FullDatabaseUpdater.aggregated_data, in insertion order
    new_minerals,       \* extract_from_specsheets main: entries to add
    new_chemicals,      \* extract_from_specsheets main: entries to add
    doc,                \* what the parsers of an extractor find in the document
    sim_data,           \* the SimulantData an extractor is filling
    sources,            \* extract_from_multiple_sources: the sources given
    attempted           \* the composition layers an extractor has attempted

diskVars == <<files, backups>>

inputVars == <<extractions, client>>

pipelineVars == <<llm, validation_results, auto_fill, review_required, sheet>>

batchVars == <<idx, all_results, stats>>

updateVars == <<mode, auto_fills, conflicts>>

tableVars == <<composition, chemicals, mineral_groups>>

storeVars == <<tableVars, pending, aggregated_data, new_minerals, new_chemicals>>

extractVars == <<doc, sim_data, sources, attempted>>

vars == <<tool, pc, database, diskVars, inputVars, pipelineVars, batchVars,
          updateVars, storeVars, extractVars>>

(***************************************************************************)
(* validation.py                                                           *)
(***************************************************************************)
MIN_SOURCES_REQUIRED == 2

\* the float literal 0.8
CONFIDENCE_THRESHOLD == FDiv(4, 5)

\* the float literal 1.2 of validate_field
BoostFactor == FDiv(6, 5)

\* the float literal 0.5 of validate_field
Half == FDiv(1, 2)

NullLike == {None, "", "null", "None"}

\* number of occurrences of v in list s (list.count, Counter counts)
Count(s, v) == Cardinality({i \in 1..Len(s) : s[i] = v})

\* keys of Counter(s): the distinct elements in first-seen order
RECURSIVE CounterKeys(_)
CounterKeys(s) ==
    IF s = <<>> THEN <<>>
    ELSE LET rest == CounterKeys(SubSeq(s, 1, Len(s) - 1))
             last == s[Len(s)]
         IN  IF \E i \in 1..Len(rest) : rest[i] = last THEN rest
             ELSE Append(rest, last)

\* Counter.most_common(1): max() over the items in insertion order, which
\* keeps the first item among those of highest count
RECURSIVE MostCommonScan(_, _, _)
MostCommonScan(keys, s, best) ==
    IF keys = <<>> THEN best
    ELSE MostCommonScan(Tail(keys), s,
            IF Count(s, Head(keys)) > Count(s, best) THEN Head(keys) ELSE best)

MostCommon(s) == LET keys == CounterKeys(s)
                 IN  MostCommonScan(Tail(keys), s, Head(keys))

validate_field(values) ==
    LET non_null_values == SelectSeq(values, LAMBDA v : v \notin NullLike)
    IN  IF non_null_values = <<>>
        THEN [value |-> None, confidence |-> FZero,
              sources_agree |-> FALSE, num_sources |-> 0]
        ELSE
        LET most_common_value == MostCommon(non_null_values)
            count             == Count(non_null_values, most_common_value)
            total_sources     == Len(non_null_values)
            agreement_ratio   == FDiv(count, total_sources)
            confidence        == IF total_sources >= MIN_SOURCES_REQUIRED
                                 THEN FMin(FOne, FMul(agreement_ratio, BoostFactor))
                                 ELSE agreement_ratio
            keys              == CounterKeys(non_null_values)
        IN  [value |-> most_common_value,
             confidence |-> confidence,
             sources_agree |-> FLess(Half, agreement_ratio),
             num_sources |-> total_sources,
             \* all_values is None unless the sources differ; that None is
             \* held as the empty list, which the code never puts there
             all_values |-> IF Len(keys) > 1 THEN keys ELSE <<>>]

validate_extraction(exs) ==
    IF exs = <<>> THEN EmptyDict
    ELSE
    LET fields == UNION {{k \in DOMAIN exs[i] : ~StartsWithUnderscore(k)} :
                         i \in 1..Len(exs)}
    IN  [f \in fields |->
            validate_field([i \in 1..Len(exs) |-> Get(exs[i], f, None)])]

\* a variant without the fallback when the reply does not parse
resolve_conflicts_no_fallback(exs, hasClient, outcome) ==
    IF ~hasClient THEN validate_extraction(exs)
    ELSE IF outcome.kind = "reply" THEN outcome.data
    ELSE IF outcome.kind = "bad_json" THEN EmptyDict
    ELSE validate_extraction(exs)

\* llm: [kind |-> "api_error"], [kind |-> "bad_json"], or
\*      [kind |-> "reply", data |-> the parsed JSON object]
resolve_conflicts_with_claude(exs, hasClient, outcome) ==
    IF ~hasClient THEN validate_extraction(exs)
    ELSE IF outcome.kind = "reply" THEN outcome.data
    ELSE validate_extraction(exs)

\* a variant that auto-fills without counting the sources
AutoFillable_NoSourceCount(result) ==
    /\ FGeq(Get(result, "confidence", FZero), CONFIDENCE_THRESHOLD)
    /\ Get(result, "value", None) # None

AutoFillable(result) ==
    /\ FGeq(Get(result, "confidence", FZero), CONFIDENCE_THRESHOLD)
    /\ Get(result, "num_sources", 0) >= MIN_SOURCES_REQUIRED
    /\ Get(result, "value", None) # None

get_auto_fillable_fields(results) ==
    [f \in {g \in DOMAIN results : AutoFillable(results[g])} |->
        Get(results[f], "value", None)]

\* a variant that sends a field to review only for low confidence or conflict
ReviewRequired_NoSourceCount(result) ==
    \/ FLess(Get(result, "confidence", FZero), CONFIDENCE_THRESHOLD)
    \/ ~Get(result, "sources_agree", FALSE)

ReviewRequired(result) ==
    \/ FLess(Get(result, "confidence", FZero), CONFIDENCE_THRESHOLD)
    \/ Get(result, "num_sources", 0) < MIN_SOURCES_REQUIRED
    \/ ~Get(result, "sources_agree", FALSE)

get_review_required_fields(results) ==
    [f \in {g \in DOMAIN results : ReviewRequired(results[g])} |-> results[f]]


(***************************************************************************)
(* sheets_writer.py                                                        *)
(***************************************************************************)
\* field_mapping of update_field: internal field name -> sheet column
SheetColumn(field) ==
    CASE field = "institution" -> "Institution"
      [] field = "type"        -> "Type"
      [] OTHER                 -> field

\* str.strip() on the cell texts that occur
Strip(v) == IF v = "  " THEN "" ELSE v

ProvenanceText == "AI-extracted (multi-source validated)"

\* SheetsWriter.update_field on the simulant's row; row.found is FALSE when
\* find_simulant_row finds nothing, row.cells maps the header columns to
\* the row's cells
update_field(row, field, value) ==
    IF ~row.found THEN row
    ELSE LET col == SheetColumn(field)
         IN  IF col \notin DOMAIN row.cells THEN row
             ELSE IF Truthy(row.cells[col]) /\ Truthy(Strip(row.cells[col])) THEN row
             ELSE [row EXCEPT !.cells =
                      [c \in DOMAIN row.cells |->
                          IF c = col THEN value
                          ELSE IF c = "Data Source" THEN ProvenanceText
                          ELSE row.cells[c]]]

\* SheetsWriter.update_simulant: update_field for every non-None update
RECURSIVE update_simulant(_, _, _)
update_simulant(row, updates, todo) ==
    IF todo = {} THEN row
    ELSE LET f == CHOOSE g \in todo : TRUE
         IN  update_simulant(
                IF updates[f] # None THEN update_field(row, f, updates[f])
                ELSE row,
                updates, todo \ {f})

(***************************************************************************)
(* Inputs of the AI pipeline run.                                          *)
(***************************************************************************)
MaxSources == 3

\* the fields followed, a subset of EXTRACTABLE_FIELDS
Fields == {"institution", "type"}

SourceMeta == [k \in {"_source", "_source_type"} |->
                  IF k = "_source" THEN "doc.pdf" ELSE "pdf"]

\* what the extraction LLM returned for one source
ExtractedDicts ==
    { [k \in {"institution", "type"} |-> IF k = "institution" THEN "A" ELSE "A"],
      [k \in {"institution", "type"} |-> IF k = "institution" THEN "B" ELSE ""],
      [k \in {"institution", "type"} |-> IF k = "institution" THEN None ELSE "None"],
      [k \in {"institution", "type"} |-> IF k = "institution" THEN "null" ELSE "A"],
      [k \in {"type"} |-> "A"] }

RECURSIVE ListsUpTo(_, _)
ListsUpTo(S, n) ==
    IF n = 0 THEN {<<>>}
    ELSE LET shorter == ListsUpTo(S, n - 1)
         IN  shorter \cup {Append(l, x) : l \in {k \in shorter : Len(k) = n - 1}, x \in S}

\* extract_from_multiple_sources adds the source metadata to each dict
PipelineExtractions == ListsUpTo({d @@ SourceMeta : d \in ExtractedDicts}, MaxSources)

F095 == FDiv(19, 20)

\* per-field answers of the arbitration LLM, in the format FACT_CHECK_PROMPT
\* asks for; the last three carry a num_sources key nobody asked for
FieldAnswers ==
    { [value |-> "A", confidence |-> F095, sources_agree |-> TRUE, notes |-> ""],
      [value |-> "B", confidence |-> Half, sources_agree |-> FALSE, notes |-> "conflict"],
      [value |-> None, confidence |-> FOne, sources_agree |-> TRUE, notes |-> ""],
      [value |-> "A", confidence |-> CONFIDENCE_THRESHOLD, sources_agree |-> TRUE,
       notes |-> "", num_sources |-> 2],
      [value |-> "B", confidence |-> F095, sources_agree |-> FALSE,
       notes |-> "conflict", num_sources |-> 2],
      [value |-> None, confidence |-> F095, sources_agree |-> TRUE,
       notes |-> "", num_sources |-> 3] }

LLMReplies ==
    {[f \in {"institution"} |-> a] : a \in FieldAnswers}
    \cup {[f \in Fields |-> IF f = "institution" THEN a
                            ELSE [value |-> "A", confidence |-> F095,
                                  sources_agree |-> TRUE, notes |-> ""]] :
          a \in FieldAnswers}

LLMOutcomes == {[kind |-> "api_error"], [kind |-> "bad_json"]}
               \cup {[kind |-> "reply", data |-> r] : r \in LLMReplies}

NoCall == [kind |-> "none"]

SimulantRecord(inst, type) ==
    [simulant_id |-> "S001", name |-> "JSC-1A", institution |-> inst, type |-> type]

SheetCells ==
    { [c \in {"Institution", "Type", "Data Source"} |-> None],
      [c \in {"Institution", "Type", "Data Source"} |->
          IF c = "Institution" THEN "X" ELSE IF c = "Type" THEN "  " ELSE "manual"],
      [c \in {"Institution"} |-> ""] }

SheetRows == {[found |-> FALSE, cells |-> EmptyDict]}
             \cup {[found |-> TRUE, cells |-> c] : c \in SheetCells}

(***************************************************************************)
(* Idle values of the variables a script does not use.                     *)
(***************************************************************************)
NoPipeline ==
    /\ llm = NoCall
    /\ validation_results = EmptyDict
    /\ auto_fill = EmptyDict
    /\ review_required = EmptyDict

NoBatch ==
    /\ idx = 0
    /\ all_results = <<>>
    /\ stats = [success |-> 0, no_documents |-> 0, no_text |-> 0, errors |-> 0]

NoUpdate ==
    /\ mode = ""
    /\ auto_fills = <<>>
    /\ conflicts = <<>>

NoSheet == [found |-> FALSE, cells |-> EmptyDict]

\* SimulantData(): the three composition dicts are empty, the name and the
\* type are empty strings, the optional numbers are None (written <<>>, a
\* number v is written <<v>>) and the confidence is 0.  A name is the sequence
\* of its characters; densities are in tenths of g/cm3
NoData == [name |-> <<>>, type |-> "", nasa_fom_score |-> <<>>,
           chemical_composition |-> <<>>, mineral_composition |-> <<>>,
           mineral_groups |-> <<>>,
           density_mean |-> <<>>, particle_size_median |-> <<>>,
           friction_angle_deg |-> <<>>, cohesion_kpa |-> <<>>,
           extraction_confidence |-> 0]

NoDoc == [k \in {} |-> <<>>]

\* no layer attempted yet, for the oxides and for the minerals
NoAttempts == [oxides |-> <<>>, minerals |-> <<>>]

NoExtract ==
    /\ doc = NoDoc
    /\ sim_data = NoData
    /\ sources = <<>>
    /\ attempted = NoAttempts

NoStore ==
    /\ composition = <<>>
    /\ chemicals = <<>>
    /\ mineral_groups = <<>>
    /\ pending = <<>>
    /\ aggregated_data = <<>>
    /\ new_minerals = <<>>
    /\ new_chemicals = <<>>

(***************************************************************************)
(* ai_data_pipeline.py: AIDataPipeline.process_simulant for one simulant   *)
(***************************************************************************)
InitPipeline ==
    /\ tool = "ai_data_pipeline"
    /\ pc = "start"
    /\ database \in {<<SimulantRecord(None, "")>>, <<SimulantRecord("X", "null")>>,
                     <<SimulantRecord("X", "Mare")>>}
    /\ files = [n \in {"simulant.json"} |-> database]
    /\ backups = <<>>
    /\ extractions \in PipelineExtractions
    /\ client \in BOOLEAN
    /\ NoPipeline
    /\ sheet \in SheetRows
    /\ NoBatch
    /\ NoUpdate
    /\ NoStore
    /\ NoExtract

missing_fields(sim) ==
    {f \in Fields : ~Truthy(Get(sim, f, None)) \/ Get(sim, f, None) \in {"None", "null", ""}}

\* process_simulant: nothing is missing, the simulant is skipped
SkipComplete ==
    /\ tool = "ai_data_pipeline" /\ pc = "start"
    /\ missing_fields(database[1]) = {}
    /\ pc' = "done"
    /\ UNCHANGED <<tool, database, diskVars, inputVars, extractVars, pipelineVars, batchVars,
                   updateVars, storeVars>>

\* extract_and_validate: no sources or no extraction succeeded
NoDataExtracted ==
    /\ tool = "ai_data_pipeline" /\ pc = "start"
    /\ missing_fields(database[1]) # {}
    /\ extractions = <<>>
    /\ pc' = "done"
    /\ UNCHANGED <<tool, database, diskVars, inputVars, extractVars, pipelineVars, batchVars,
                   updateVars, storeVars>>

\* extract_and_validate: validator.resolve_conflicts_with_claude
ResolveConflicts ==
    /\ tool = "ai_data_pipeline" /\ pc = "start"
    /\ missing_fields(database[1]) # {}
    /\ extractions # <<>>
    /\ \E outcome \in IF client THEN LLMOutcomes ELSE {NoCall} :
          /\ llm' = outcome
          /\ validation_results' =
                resolve_conflicts_with_claude(extractions, client, outcome)
    /\ pc' = "validated"
    /\ UNCHANGED <<tool, database, diskVars, inputVars, extractVars, auto_fill,
                   review_required, sheet, batchVars, updateVars, storeVars>>

GetAutoFillableFields ==
    /\ tool = "ai_data_pipeline" /\ pc = "validated"
    /\ auto_fill' = get_auto_fillable_fields(validation_results)
    /\ pc' = "auto"
    /\ UNCHANGED <<tool, database, diskVars, inputVars, extractVars, llm, validation_results,
                   review_required, sheet, batchVars, updateVars, storeVars>>

GetReviewRequiredFields ==
    /\ tool = "ai_data_pipeline" /\ pc = "auto"
    /\ review_required' = get_review_required_fields(validation_results)
    /\ pc' = "partitioned"
    /\ UNCHANGED <<tool, database, diskVars, inputVars, extractVars, llm, validation_results,
                   auto_fill, sheet, batchVars, updateVars, storeVars>>

\* process_simulant: sheets_writer.update_simulant(name, auto_fill)
UpdateSheet ==
    /\ tool = "ai_data_pipeline" /\ pc = "partitioned"
    /\ sheet' = update_simulant(sheet, auto_fill, DOMAIN auto_fill)
    /\ pc' = "done"
    /\ UNCHANGED <<tool, database, diskVars, inputVars, extractVars, llm, validation_results,
                   auto_fill, review_required, batchVars, updateVars,
                   storeVars>>

(***************************************************************************)
(* batch_extract.py                                                        *)
(***************************************************************************)
\* the values of field f that process_simulant aggregates: the truthy ones
BatchValues(exs, f) ==
    SelectSeq([i \in 1..Len(exs) |-> Get(exs[i], f, None)], LAMBDA v : Truthy(v))

\* max(set(values), key=values.count): max() keeps the first element of
\* highest count in the iteration order of the set, and the order in which a
\* set of str iterates is not determined by the program (hash randomisation),
\* so any value of highest count can come out
BatchModes(values) ==
    {v \in {values[i] : i \in 1..Len(values)} :
        \A j \in 1..Len(values) : Count(values, values[j]) <= Count(values, v)}

\* the aggregated dicts process_simulant can return for these extractions
BatchAggregations(exs) ==
    LET found == {f \in Fields : BatchValues(exs, f) # <<>>}
    IN  {agg \in [found -> UNION {BatchModes(BatchValues(exs, f)) : f \in found}] :
            \A f \in found : agg[f] \in BatchModes(BatchValues(exs, f))}

SecondSimulant ==
    [simulant_id |-> "S002", name |-> "LHS-1", institution |-> "", type |-> "Highland"]

InitBatch ==
    /\ tool = "batch_extract"
    /\ pc = "start"
    /\ \E inst \in {None, "X", "a"}, type \in {"", "null", "Mare"} :
          files \in {[n \in {"simulant.json"} |-> <<SimulantRecord(inst, type)>>],
                     [n \in {"simulant.json"} |->
                         <<SimulantRecord(inst, type), SecondSimulant>>]}
    /\ backups = <<>>
    /\ database = <<>>
    /\ extractions \in ListsUpTo(ExtractedDicts, MaxSources)
    /\ client = FALSE
    /\ NoPipeline
    /\ sheet = NoSheet
    /\ NoBatch
    /\ NoUpdate
    /\ NoStore
    /\ NoExtract

\* main: load_all_simulants
BatchLoad ==
    /\ tool = "batch_extract" /\ pc = "start"
    /\ database' = files["simulant.json"]
    /\ idx' = 1
    /\ pc' = "loop"
    /\ UNCHANGED <<tool, diskVars, inputVars, extractVars, pipelineVars, all_results, stats,
                   updateVars, storeVars>>

\* main: one iteration of the loop over the simulants.  Simulant 1 has
\* documents whose extractions are `extractions`; for the others there are
\* no documents, no text, or process_simulant raises.
BatchProcessSimulant ==
    /\ tool = "batch_extract" /\ pc = "loop"
    /\ idx <= Len(database)
    /\ LET sim == database[idx]
       IN  \/ /\ idx = 1
              /\ \E agg \in BatchAggregations(extractions) :
                    all_results' = Append(all_results,
                        [simulant_id |-> sim.simulant_id, name |-> sim.name,
                         status |-> "success", sources_found |-> Len(extractions),
                         extractions_successful |-> Len(extractions),
                         extractions |-> extractions, aggregated |-> agg])
              /\ stats' = [stats EXCEPT !.success = @ + 1]
           \/ /\ idx > 1
              /\ all_results' = Append(all_results,
                    [simulant_id |-> sim.simulant_id, name |-> sim.name,
                     status |-> "no_documents", sources_found |-> 0,
                     aggregated |-> EmptyDict])
              /\ stats' = [stats EXCEPT !.no_documents = @ + 1]
           \/ /\ idx > 1
              /\ all_results' = Append(all_results,
                    [simulant_id |-> sim.simulant_id, name |-> sim.name,
                     status |-> "no_text_extracted", sources_found |-> 1,
                     aggregated |-> EmptyDict])
              /\ stats' = [stats EXCEPT !.no_text = @ + 1]
           \/ /\ idx > 1
              /\ all_results' = Append(all_results,
                    [simulant_id |-> sim.simulant_id, name |-> sim.name,
                     status |-> "error", error |-> "exception"])
              /\ stats' = [stats EXCEPT !.errors = @ + 1]
    /\ idx' = idx + 1
    /\ UNCHANGED <<tool, pc, database, diskVars, inputVars, extractVars, pipelineVars, updateVars,
                   storeVars>>

\* main: the combined results are written to all_results.json
BatchSaveResults ==
    /\ tool = "batch_extract" /\ pc = "loop"
    /\ idx > Len(database)
    /\ files' = [n \in DOMAIN files \cup {"all_results.json"} |->
                    IF n = "all_results.json"
                    THEN [total_simulants |-> Len(database), stats |-> stats,
                          results |-> all_results]
                    ELSE files[n]]
    /\ pc' = "json_saved"
    /\ UNCHANGED <<tool, database, backups, inputVars, extractVars, pipelineVars, batchVars,
                   updateVars, storeVars>>

\* next(r for r in all_results if r['simulant_id'] == sim_id)
ResultOf(results, sim_id) ==
    results[CHOOSE i \in 1..Len(results) :
                /\ results[i].simulant_id = sim_id
                /\ \A j \in 1..(i - 1) : results[j].simulant_id # sim_id]

\* x if x else ''
OrBlank(v) == IF Truthy(v) THEN v ELSE ""

\* save_results_csv: the row of one simulant
CsvRow(simulant, result) ==
    [simulant_id |-> simulant.simulant_id, name |-> simulant.name,
     status |-> result.status, sources_found |-> result.sources_found,
     existing |-> [f \in Fields |-> OrBlank(Get(simulant, f, None))],
     extracted |-> [f \in Fields |-> OrBlank(Get(result.aggregated, f, None))],
     final |-> [f \in Fields |->
                  IF Truthy(Get(simulant, f, None)) THEN simulant[f]
                  ELSE OrBlank(Get(result.aggregated, f, None))]]

\* main: save_results_csv.  The result recorded for a simulant whose
\* processing raised has no 'sources_found' key: building its row raises
\* KeyError and the run ends there.
BatchSaveCsv ==
    /\ tool = "batch_extract" /\ pc = "json_saved"
    /\ IF \E i \in 1..Len(all_results) : "sources_found" \notin DOMAIN all_results[i]
       THEN /\ pc' = "crashed"
            /\ UNCHANGED files
       ELSE /\ pc' = "done"
            /\ files' = [n \in DOMAIN files \cup {"all_extractions.csv"} |->
                  IF n = "all_extractions.csv"
                  THEN [i \in 1..Len(database) |->
                           CsvRow(database[i],
                                  ResultOf(all_results, database[i].simulant_id))]
                  ELSE files[n]]
    /\ UNCHANGED <<tool, database, backups, inputVars, extractVars, pipelineVars, batchVars,
                   updateVars, storeVars>>

(***************************************************************************)
(* update_database.py                                                      *)
(***************************************************************************)
FIELDS_TO_UPDATE == <<"institution", "type">>

is_empty(value) == value \in {None, "", "null"}

\* str(v).lower().strip() on the values that occur
LowerStrip(v) ==
    CASE v = "A" -> "a"
      [] v = "B" -> "b"
      [] v = "X" -> "x"
      [] v = "None" -> "none"
      [] v = "Mare" -> "mare"
      [] v = "Highland" -> "highland"
      [] v = "  " -> ""
      [] OTHER -> v

\* extraction_map[sim_id]: the dict comprehension keeps the last result of an id
ExtractionOf(results, sim_id) ==
    LET hits == {i \in 1..Len(results) : results[i].simulant_id = sim_id}
    IN  IF hits = {} THEN EmptyDict
        ELSE results[CHOOSE i \in hits : \A j \in hits : j <= i]

\* the (simulant, field) pairs in the order analyze_changes visits them
RECURSIVE VisitOrder(_, _)
VisitOrder(db, i) ==
    IF i > Len(db) THEN <<>>
    ELSE [k \in 1..Len(FIELDS_TO_UPDATE) |-> [sim |-> i, field |-> FIELDS_TO_UPDATE[k]]]
         \o VisitOrder(db, i + 1)

Extracted(db, results, v) ==
    Get(Get(ExtractionOf(results, db[v.sim].simulant_id), "aggregated", EmptyDict),
        v.field, None)

IsAutoFill(db, results, v) ==
    /\ Truthy(Extracted(db, results, v))
    /\ is_empty(Get(db[v.sim], v.field, None))

IsConflict(db, results, v) ==
    /\ Truthy(Extracted(db, results, v))
    /\ ~is_empty(Get(db[v.sim], v.field, None))
    /\ LowerStrip(Get(db[v.sim], v.field, None)) # LowerStrip(Extracted(db, results, v))

analyze_auto_fills(db, results) ==
    LET hits == SelectSeq(VisitOrder(db, 1), LAMBDA v : IsAutoFill(db, results, v))
    IN  [k \in 1..Len(hits) |->
            [sim_id |-> db[hits[k].sim].simulant_id, name |-> db[hits[k].sim].name,
             field |-> hits[k].field, value |-> Extracted(db, results, hits[k])]]

analyze_conflicts(db, results) ==
    LET hits == SelectSeq(VisitOrder(db, 1), LAMBDA v : IsConflict(db, results, v))
    IN  [k \in 1..Len(hits) |->
            [sim_id |-> db[hits[k].sim].simulant_id, name |-> db[hits[k].sim].name,
             field |-> hits[k].field,
             existing |-> Get(db[hits[k].sim], hits[k].field, None),
             extracted |-> Extracted(db, results, hits[k])]]

\* updates_by_id[sim_id][field]: the last auto-fill of a field wins
apply_auto_fills(db, fills) ==
    [i \in 1..Len(db) |->
        [f \in DOMAIN db[i] \cup
               {fills[k].field : k \in {j \in 1..Len(fills) :
                                           fills[j].sim_id = db[i].simulant_id}} |->
            LET hits == {k \in 1..Len(fills) :
                            fills[k].sim_id = db[i].simulant_id /\ fills[k].field = f}
            IN  IF hits = {} THEN db[i][f]
                ELSE fills[CHOOSE k \in hits : \A j \in hits : j <= k].value]]

Modes == {"--auto-only", "--show-conflicts", "--interactive"}

\* main: load_database, load_extractions, analyze_changes; run after a batch
\* extraction has written all_results.json
UpdateDatabaseStart ==
    /\ tool = "batch_extract" /\ pc \in {"done", "crashed"}
    /\ tool' = "update_database"
    /\ \E m \in Modes : mode' = m
    /\ database' = files["simulant.json"]
    /\ auto_fills' = analyze_auto_fills(files["simulant.json"],
                                        files["all_results.json"].results)
    /\ conflicts' = analyze_conflicts(files["simulant.json"],
                                      files["all_results.json"].results)
    /\ pc' = "analyzed"
    /\ UNCHANGED <<diskVars, inputVars, extractVars, pipelineVars, batchVars, storeVars>>

\* main: --show-conflicts, another mode, or nothing to fill: return
UpdateDatabaseReturn ==
    /\ tool = "update_database" /\ pc = "analyzed"
    /\ mode # "--auto-only" \/ auto_fills = <<>>
    /\ pc' = "done"
    /\ UNCHANGED <<tool, database, diskVars, inputVars, extractVars, pipelineVars, batchVars,
                   updateVars, storeVars>>

\* main: the loaded database is dumped to BACKUP_FILE
UpdateDatabaseBackup ==
    /\ tool = "update_database" /\ pc = "analyzed"
    /\ mode = "--auto-only" /\ auto_fills # <<>>
    /\ backups' = Append(backups, [name |-> "simulant.json", content |-> database])
    /\ pc' = "backed_up"
    /\ UNCHANGED <<tool, database, files, inputVars, extractVars, pipelineVars, batchVars,
                   updateVars, storeVars>>

\* main: apply_auto_fills and save DATA_FILE
UpdateDatabaseApply ==
    /\ tool = "update_database" /\ pc = "backed_up"
    /\ database' = apply_auto_fills(database, auto_fills)
    /\ files' = [files EXCEPT !["simulant.json"] = apply_auto_fills(database, auto_fills)]
    /\ pc' = "done"
    /\ UNCHANGED <<tool, backups, inputVars, extractVars, pipelineVars, batchVars, updateVars,
                   storeVars>>

(***************************************************************************)
(* The composition tables.  A table is the list of its records.  An id     *)
(* "C007", "CH007" or "MG007" is held as the number 7: the scripts build   *)
(* an id as prefix + the number in three digits and read it back with      *)
(* int(id[len(prefix):]).  A percentage is a whole number.  A Dict[str,    *)
(* float] of extracted values is the list of its items [k, v] in insertion *)
(* order.                                                                  *)
(***************************************************************************)
Range(s) == {s[i] : i \in 1..Len(s)}

Keys(d) == {d[i].k : i \in 1..Len(d)}

RECURSIVE SumValues(_)
SumValues(d) == IF d = <<>> THEN 0 ELSE Head(d).v + SumValues(Tail(d))

Max(S) == CHOOSE x \in S : \A y \in S : y <= x

\* max(existing_ids, default=0) + 1
get_next_composition_id(table) ==
    IF table = <<>> THEN 1 ELSE Max({c.composition_id : c \in Range(table)}) + 1

get_next_chemical_id(table) ==
    IF table = <<>> THEN 1 ELSE Max({c.composition_id : c \in Range(table)}) + 1

get_next_group_id(table) ==
    IF table = <<>> THEN 1 ELSE Max({g.group_id : g \in Range(table)}) + 1

\* str.title() on the mineral names that occur
Title(name) ==
    CASE name = "olivine" -> "Olivine"
      [] name = "K-feldspar" -> "K-Feldspar"
      [] OTHER -> name

\* update_minerals: the loop that appends the entries with value > 0
RECURSIVE AddMinerals(_, _, _)
AddMinerals(table, simulant_id, minerals) ==
    IF minerals = <<>> THEN table
    ELSE AddMinerals(
            IF Head(minerals).v > 0
            THEN Append(table, [composition_id |-> get_next_composition_id(table),
                                simulant_id |-> simulant_id,
                                component_type |-> "mineral",
                                component_name |-> Title(Head(minerals).k),
                                value_pct |-> Head(minerals).v])
            ELSE table,
            simulant_id, Tail(minerals))

update_minerals(table, simulant_id, minerals) ==
    AddMinerals(SelectSeq(table, LAMBDA c : ~(c.simulant_id = simulant_id
                                               /\ c.component_type = "mineral")),
                simulant_id, minerals)

\* update_chemicals: the loop that appends the entries with value >= 0
RECURSIVE AddChemicals(_, _, _)
AddChemicals(table, simulant_id, oxides) ==
    IF oxides = <<>> THEN table
    ELSE AddChemicals(
            IF Head(oxides).v >= 0
            THEN Append(table, [composition_id |-> get_next_chemical_id(table),
                                simulant_id |-> simulant_id,
                                component_type |-> "oxide",
                                component_name |-> Head(oxides).k,
                                value_wt_pct |-> Head(oxides).v])
            ELSE table,
            simulant_id, Tail(oxides))

update_chemicals(table, simulant_id, oxides) ==
    AddChemicals(SelectSeq(table, LAMBDA c : c.simulant_id # simulant_id),
                 simulant_id, oxides)

RECURSIVE AddGroups(_, _, _)
AddGroups(table, simulant_id, groups) ==
    IF groups = <<>> THEN table
    ELSE AddGroups(Append(table, [group_id |-> get_next_group_id(table),
                                  simulant_id |-> simulant_id,
                                  group_name |-> Head(groups).k,
                                  value_pct |-> Head(groups).v]),
                   simulant_id, Tail(groups))

update_mineral_groups(table, simulant_id, groups) ==
    AddGroups(SelectSeq(table, LAMBDA g : g.simulant_id # simulant_id),
              simulant_id, groups)

\* f"{data.bulk_density} g/cm3" for the densities that occur
DensityText(d) ==
    CASE d = 2 -> "2.0 g/cm3"
      [] OTHER -> "1.0 g/cm3"

\* sim.get(key) is truthy; a number is truthy unless it is 0
HasNumber(sim, key) == key \in DOMAIN sim /\ sim[key] # 0

\* update_simulant_info on one record: nasa_fom_score, type, bulk_density.
\* In the extracted data a missing number is 0: the code tests these fields
\* for truthiness only, which None and 0.0 both fail.
UpdatedRecord(sim, data) ==
    LET fom == data.nasa_fom_score # 0 /\ ~HasNumber(sim, "nasa_fom_score")
        typ == Truthy(data.type) /\ ~Truthy(Get(sim, "type", None))
        den == data.bulk_density # 0 /\ ~Truthy(Get(sim, "bulk_density", None))
    IN  [f \in DOMAIN sim \cup (IF fom THEN {"nasa_fom_score"} ELSE {})
                          \cup (IF typ THEN {"type"} ELSE {})
                          \cup (IF den THEN {"bulk_density"} ELSE {}) |->
            CASE f = "nasa_fom_score" /\ fom -> data.nasa_fom_score
              [] f = "type" /\ typ -> data.type
              [] f = "bulk_density" /\ den -> DensityText(data.bulk_density)
              [] OTHER -> sim[f]]

\* update_simulant_info: the first record with the id is updated
update_simulant_info(simulants, simulant_id, data) ==
    LET hits == {i \in 1..Len(simulants) : simulants[i].simulant_id = simulant_id}
    IN  IF hits = {} THEN simulants
        ELSE LET first == CHOOSE i \in hits : \A j \in hits : i <= j
             IN  [simulants EXCEPT ![first] = UpdatedRecord(simulants[first], data)]

\* find_simulant_id: name_to_id maps the upper-cased name to the id of the
\* last record of that name.  No name that occurs contains another one or
\* differs from one by case or hyphens only, so the lookups after the direct
\* match find nothing.
find_simulant_id(simulants, name) ==
    LET hits == {i \in 1..Len(simulants) : simulants[i].name = name}
    IN  IF hits = {} THEN None
        ELSE simulants[CHOOSE i \in hits : \A j \in hits : j <= i].simulant_id

\* merge_data, chemical composition: a new oxide is added; a known oxide is
\* replaced when the new source has the higher confidence
RECURSIVE MergeChemicals(_, _, _)
MergeChemicals(existing, new, replace) ==
    IF new = <<>> THEN existing
    ELSE MergeChemicals(
            IF Head(new).k \notin Keys(existing) THEN Append(existing, Head(new))
            ELSE IF replace
                 THEN [i \in 1..Len(existing) |->
                          IF existing[i].k = Head(new).k THEN Head(new) ELSE existing[i]]
                 ELSE existing,
            Tail(new), replace)

\* merge_data, minerals and mineral groups: only new keys are added
RECURSIVE MergeNew(_, _)
MergeNew(existing, new) ==
    IF new = <<>> THEN existing
    ELSE MergeNew(IF Head(new).k \notin Keys(existing)
                  THEN Append(existing, Head(new)) ELSE existing,
                  Tail(new))

merge_data(existing, new) ==
    [simulant_id |-> existing.simulant_id,
     name |-> existing.name,
     chemical_composition |->
         MergeChemicals(existing.chemical_composition, new.chemical_composition,
                        new.extraction_confidence > existing.extraction_confidence),
     mineral_composition |-> MergeNew(existing.mineral_composition, new.mineral_composition),
     mineral_groups |-> MergeNew(existing.mineral_groups, new.mineral_groups),
     type |-> IF Truthy(new.type) /\ ~Truthy(existing.type)
              THEN new.type ELSE existing.type,
     nasa_fom_score |-> IF new.nasa_fom_score # 0 /\ existing.nasa_fom_score = 0
                        THEN new.nasa_fom_score ELSE existing.nasa_fom_score,
     bulk_density |-> IF new.bulk_density # 0 /\ existing.bulk_density = 0
                      THEN new.bulk_density ELSE existing.bulk_density,
     extraction_confidence |->
         IF new.extraction_confidence > existing.extraction_confidence
         THEN new.extraction_confidence ELSE existing.extraction_confidence,
     extraction_methods |-> existing.extraction_methods \o new.extraction_methods]

\* aggregate_results for one extracted record
aggregate_results(agg, simulants, data) ==
    LET sim_id == find_simulant_id(simulants, data.name)
        known == {i \in 1..Len(agg) : agg[i].simulant_id = sim_id}
    IN  IF ~Truthy(data.name) \/ sim_id = None THEN agg
        ELSE IF known # {}
             THEN [i \in 1..Len(agg) |->
                      IF i \in known THEN merge_data(agg[i], data) ELSE agg[i]]
             ELSE Append(agg, [data EXCEPT !.simulant_id = sim_id])

\* the four update_* calls made for one simulant's data; st holds the
\* in-memory tables
UpdateAll(st, sim_id, data) ==
    [composition |->
         IF data.mineral_composition # <<>>
         THEN update_minerals(st.composition, sim_id, data.mineral_composition)
         ELSE st.composition,
     mineral_groups |->
         IF data.mineral_groups # <<>>
         THEN update_mineral_groups(st.mineral_groups, sim_id, data.mineral_groups)
         ELSE st.mineral_groups,
     chemicals |->
         IF data.chemical_composition # <<>>
         THEN update_chemicals(st.chemicals, sim_id, data.chemical_composition)
         ELSE st.chemicals,
     simulants |-> update_simulant_info(st.simulants, sim_id, data)]

has_data(data) ==
    \/ Len(data.chemical_composition) >= 3
    \/ Len(data.mineral_composition) >= 2
    \/ data.nasa_fom_score # 0
    \/ Truthy(data.type)

RECURSIVE apply_aggregated_data(_, _)
apply_aggregated_data(st, agg) ==
    IF agg = <<>> THEN st
    ELSE apply_aggregated_data(
            IF has_data(Head(agg)) THEN UpdateAll(st, Head(agg).simulant_id, Head(agg))
            ELSE st,
            Tail(agg))

(***************************************************************************)
(* fix_mineral_duplicates.py                                               *)
(***************************************************************************)
\* variant of SAME_AS: no name is folded
SAME_AS_Identity(name) == name

\* variant of SAME_AS: Anorthosite is folded to Feldspar, itself a folded name
SAME_AS_Chained(name) ==
    CASE name = "Anorthosite" -> "Feldspar"
      [] name = "Volcanic Glass" -> "Glass"
      [] name = "Feldspar" -> "Plagioclase"
      [] OTHER -> name

\* SAME_AS.get(name, name)
SAME_AS(name) ==
    CASE name = "Anorthosite" -> "Plagioclase"
      [] name = "Volcanic Glass" -> "Glass"
      [] name = "Feldspar" -> "Plagioclase"
      [] OTHER -> name

ROCK_TYPES == {"Basalt", "Norite"}

\* the parents of PARENT_CHILD, in the order of the dict
PARENTS == <<"Plagioclase", "Pyroxene", "Olivine", "Feldspar">>

PARENT_CHILD(parent) ==
    CASE parent = "Plagioclase" -> {"Anorthite", "Labradorite", "Bytownite", "Albite"}
      [] parent = "Pyroxene" -> {"Augite", "Clinopyroxene", "Orthopyroxene", "Bronzite",
                                 "Pigeonite"}
      [] parent = "Olivine" -> {"Forsterite", "Fayalite"}
      [] parent = "Feldspar" -> {"Plagioclase", "K-feldspar"}

RECURSIVE SumPct(_)
SumPct(ms) == IF ms = <<>> THEN 0 ELSE Head(ms).value_pct + SumPct(Tail(ms))

\* variant of get_best_value: the entries of a name are merged into one
\* carrying their sum
get_best_value_Sum(entries) == [entries[1] EXCEPT !.value_pct = SumPct(entries)]

\* max(entries, key=value): the first entry of the highest value
get_best_value(entries) ==
    entries[CHOOSE i \in 1..Len(entries) :
                /\ \A j \in 1..Len(entries) : entries[j].value_pct <= entries[i].value_pct
                /\ \A j \in 1..(i - 1) : entries[j].value_pct < entries[i].value_pct]

\* list.sort(key=-value): a stable sort, highest value first
RECURSIVE SortByValueDesc(_)
SortByValueDesc(ms) ==
    IF ms = <<>> THEN <<>>
    ELSE LET rest == SortByValueDesc(Tail(ms))
             before == SelectSeq(rest, LAMBDA m : m.value_pct > Head(ms).value_pct)
             after == SelectSeq(rest, LAMBDA m : m.value_pct <= Head(ms).value_pct)
         IN  before \o <<Head(ms)>> \o after

\* variant of TakeUntilFull: entries are taken while the running total stays
\* within 150
RECURSIVE TakeUntilFull_Loose(_, _)
TakeUntilFull_Loose(ms, running_total) ==
    IF ms = <<>> THEN <<>>
    ELSE IF running_total + Head(ms).value_pct <= 150 \/ running_total < 50
         THEN <<Head(ms)>> \o TakeUntilFull_Loose(Tail(ms), running_total + Head(ms).value_pct)
         ELSE TakeUntilFull_Loose(Tail(ms), running_total)

\* the last loop of fix_minerals: entries are taken while the running total
\* stays within 105 or is still below 50
RECURSIVE TakeUntilFull(_, _)
TakeUntilFull(ms, running_total) ==
    IF ms = <<>> THEN <<>>
    ELSE IF running_total + Head(ms).value_pct <= 105 \/ running_total < 50
         THEN <<Head(ms)>> \o TakeUntilFull(Tail(ms), running_total + Head(ms).value_pct)
         ELSE TakeUntilFull(Tail(ms), running_total)

fix_minerals(minerals_list) ==
    LET total == SumPct(minerals_list)
        renamed == [i \in 1..Len(minerals_list) |->
                       [minerals_list[i] EXCEPT !.component_name = SAME_AS(@)]]
        names == CounterKeys([i \in 1..Len(renamed) |-> renamed[i].component_name])
        mineral_names == Range(names)
        by_name(name) == SelectSeq(renamed, LAMBDA m : m.component_name = name)
        real_total == SumPct(SelectSeq(minerals_list,
                                       LAMBDA m : m.component_name \notin ROCK_TYPES))
        rocks == IF real_total > 30 THEN ROCK_TYPES ELSE {}
        children_present(parent) == mineral_names \cap PARENT_CHILD(parent)
        \* parent_value > children_value * 1.5, on whole numbers
        parent_larger(parent) ==
            2 * SumPct(by_name(parent)) >
            3 * SumPct(SelectSeq(renamed,
                           LAMBDA m : m.component_name \in children_present(parent)))
        overlaps == UNION {IF parent_larger(PARENTS[p])
                           THEN children_present(PARENTS[p]) ELSE {PARENTS[p]} :
                           p \in {q \in 1..Len(PARENTS) :
                                     /\ PARENTS[q] \in mineral_names
                                     /\ children_present(PARENTS[q]) # {}}}
        cleaned(to_remove) ==
            LET kept == SelectSeq(names, LAMBDA n : n \notin to_remove)
            IN  [k \in 1..Len(kept) |-> get_best_value(by_name(kept[k]))]
    IN  IF minerals_list = <<>> THEN minerals_list
        ELSE IF total <= 110 THEN cleaned(rocks)
        ELSE IF SumPct(cleaned(rocks \cup overlaps)) > 115
             THEN TakeUntilFull(SortByValueDesc(cleaned(rocks \cup overlaps)), 0)
             ELSE cleaned(rocks \cup overlaps)

\* list.sort(key=composition_id): a stable sort; ids of three digits sort as
\* their numbers
RECURSIVE SortById(_)
SortById(cs) ==
    IF cs = <<>> THEN <<>>
    ELSE LET rest == SortById(Tail(cs))
             before == SelectSeq(rest, LAMBDA c : c.composition_id < Head(cs).composition_id)
             after == SelectSeq(rest, LAMBDA c : c.composition_id >= Head(cs).composition_id)
         IN  before \o <<Head(cs)>> \o after

RECURSIVE FixEach(_, _)
FixEach(sim_ids, minerals) ==
    IF sim_ids = <<>> THEN <<>>
    ELSE fix_minerals(SelectSeq(minerals, LAMBDA m : m.simulant_id = Head(sim_ids)))
         \o FixEach(Tail(sim_ids), minerals)

\* main: the content written to composition.json
FixedCompositions(compositions) ==
    LET minerals == SelectSeq(compositions, LAMBDA c : c.component_type = "mineral")
        other == SelectSeq(compositions, LAMBDA c : c.component_type # "mineral")
        by_simulant == CounterKeys([i \in 1..Len(minerals) |-> minerals[i].simulant_id])
    IN  SortById(other \o FixEach(by_simulant, minerals))

(***************************************************************************)
(* Inputs of the runs on the composition tables.                           *)
(***************************************************************************)
MaxDocs == 2

Mineral(id, sim, name, pct) ==
    [composition_id |-> id, simulant_id |-> sim, component_type |-> "mineral",
     component_name |-> name, value_pct |-> pct]

Oxide(id, sim, name, pct) ==
    [composition_id |-> id, simulant_id |-> sim, component_type |-> "oxide",
     component_name |-> name, value_wt_pct |-> pct]

Group(id, sim, name, pct) ==
    [group_id |-> id, simulant_id |-> sim, group_name |-> name, value_pct |-> pct]

Item(k, v) == [k |-> k, v |-> v]

CompositionTables ==
    { <<>>,
      <<Mineral(1, "S001", "Plagioclase", 60), Mineral(2, "S001", "Olivine", 30),
        [composition_id |-> 3, simulant_id |-> "S002", component_type |-> "element",
         component_name |-> "Fe", value_pct |-> 5],
        Mineral(4, "S002", "Pyroxene", 100)>>,
      <<Mineral(1, "S001", "Plagioclase", 60), Mineral(2, "S001", "Anorthite", 50),
        Mineral(3, "S001", "Anorthosite", 55), Mineral(4, "S001", "Basalt", 20)>> }

ChemicalTables ==
    { <<>>, <<Oxide(1, "S001", "SiO2", 45), Oxide(2, "S002", "SiO2", 50)>> }

GroupTables ==
    { <<>>, <<Group(1, "S001", "Pyroxene", 20)>> }

\* simulant.json: the metadata of S001 is empty, a numeric zero, or populated
StoreSimulants ==
    { [simulant_id |-> "S001", name |-> "JSC-1A", institution |-> "NASA", type |-> ""],
      [simulant_id |-> "S001", name |-> "JSC-1A", institution |-> "NASA", type |-> "Mare",
       nasa_fom_score |-> 0, bulk_density |-> "1.5 g/cm3"],
      [simulant_id |-> "S001", name |-> "JSC-1A", institution |-> "NASA", type |-> "null",
       nasa_fom_score |-> 70] }

\* the data directory: mineral_groups.json may not exist yet
DataDirs ==
    {[n \in {"simulant.json", "composition.json", "chemical_composition.json"} |->
         CASE n = "simulant.json" -> <<s, SecondSimulant>>
           [] n = "composition.json" -> c
           [] n = "chemical_composition.json" -> ch] :
        s \in StoreSimulants, c \in CompositionTables, ch \in ChemicalTables}
    \cup
    {[n \in {"simulant.json", "composition.json", "chemical_composition.json",
             "mineral_groups.json"} |->
         CASE n = "simulant.json" -> <<s, SecondSimulant>>
           [] n = "composition.json" -> c
           [] n = "chemical_composition.json" -> ch
           [] n = "mineral_groups.json" -> g] :
        s \in StoreSimulants, c \in CompositionTables, ch \in ChemicalTables,
        g \in GroupTables}

\* SimulantData records as the extractors return them
ExtractedData ==
    { [simulant_id |-> None, name |-> "JSC-1A",
       chemical_composition |-> <<Item("SiO2", 47), Item("TiO2", 0), Item("FeO", 10)>>,
       mineral_composition |-> <<Item("olivine", 10), Item("Ilmenite", 0)>>,
       mineral_groups |-> <<Item("Olivine", 10)>>,
       type |-> "Highland", nasa_fom_score |-> 85, bulk_density |-> 2,
       extraction_confidence |-> 60, extraction_methods |-> <<"pattern">>],
      [simulant_id |-> None, name |-> "JSC-1A",
       chemical_composition |-> <<Item("SiO2", 44)>>,
       mineral_composition |-> <<Item("olivine", 12)>>,
       mineral_groups |-> <<>>,
       type |-> None, nasa_fom_score |-> 0, bulk_density |-> 0,
       extraction_confidence |-> 80, extraction_methods |-> <<"table">>],
      [simulant_id |-> None, name |-> "LHS-1",
       chemical_composition |-> <<>>,
       mineral_composition |-> <<Item("Plagioclase", 70), Item("Pyroxene", 20)>>,
       mineral_groups |-> <<>>,
       type |-> "", nasa_fom_score |-> 0, bulk_density |-> 0,
       extraction_confidence |-> 40, extraction_methods |-> <<"llm">>],
      [simulant_id |-> None, name |-> "XYZ-9",
       chemical_composition |-> <<Item("SiO2", 50)>>,
       mineral_composition |-> <<>>,
       mineral_groups |-> <<>>,
       type |-> "Mare", nasa_fom_score |-> 0, bulk_density |-> 0,
       extraction_confidence |-> 50, extraction_methods |-> <<"pattern">>] }

\* ExtractedData records as parse_specsheet returns them; an empty name is
\* a sheet whose simulant could not be determined (parse_specsheet is None)
SpecSheets ==
    { [simulant_name |-> "JSC-1A",
       minerals |-> <<Item("Plagioclase", 60), Item("Olivine", 35)>>,
       chemicals |-> <<Item("SiO2", 95)>>],
      [simulant_name |-> "LHS-1",
       minerals |-> <<Item("Anorthosite", 80)>>,
       chemicals |-> <<>>],
      [simulant_name |-> "XYZ-9",
       minerals |-> <<>>,
       chemicals |-> <<Item("SiO2", 100)>>],
      [simulant_name |-> "", minerals |-> <<>>, chemicals |-> <<>>] }

\* composition.json as fix_mineral_duplicates.py finds it: the mineral
\* entries recorded for one simulant, possibly by several extraction passes
MaxMinerals == 3

ReportedMinerals == {"Plagioclase", "Anorthite", "Anorthosite", "Basalt", "Olivine"}

ReportedPcts == {10, 40, 45, 100}

MineralLists ==
    {[i \in 1..Len(l) |-> Mineral(i, "S001", l[i].k, l[i].v)] :
        l \in ListsUpTo({Item(n, p) : n \in ReportedMinerals, p \in ReportedPcts},
                        MaxMinerals)}

\* three unrelated minerals of one simulant, each recorded with a value of its
\* own: the sum is over 115 with nothing for the name rules to remove
DuplicateDatasets ==
    {[i \in 1..3 |-> Mineral(i, "S001", <<"Plagioclase", "Olivine", "Ilmenite">>[i], p[i])] :
        p \in [1..3 -> {40, 50, 60}]}

FixDirs ==
    {[n \in {"simulant.json", "composition.json", "chemical_composition.json"} |->
         CASE n = "simulant.json" ->
                  <<[simulant_id |-> "S001", name |-> "JSC-1A", institution |-> "NASA",
                     type |-> ""], SecondSimulant>>
           [] n = "composition.json" -> c
           [] n = "chemical_composition.json" -> <<>>] :
        c \in MineralLists \cup DuplicateDatasets}

\* composition.json as populate_mineral_groups.py finds it: single and
\* composite mineral names
CompositeMinerals ==
    {"Olivine + pyroxene + ilmenite", "Olivine + quartz", "Augite + pigeonite", "Glass +",
     "Plagioclase", "Quartz"}

CompositeLists ==
    {[i \in 1..Len(l) |-> Mineral(i, "S001", l[i].k, l[i].v)] :
        l \in ListsUpTo({Item(n, p) : n \in CompositeMinerals, p \in {30, 100}},
                        MaxMinerals)}

\* mineral_groups.json after the groups of another simulant were deleted:
\* the entry of S002 that is left has the second identifier
RemainingGroups == <<Group(2, "S002", "Glass", 20)>>

PopulateDirs ==
    {[n \in {"simulant.json", "composition.json", "chemical_composition.json"} |->
         CASE n = "simulant.json" ->
                  <<[simulant_id |-> "S001", name |-> "JSC-1A", institution |-> "NASA",
                     type |-> ""], SecondSimulant>>
           [] n = "composition.json" -> c
           [] n = "chemical_composition.json" -> <<>>] :
        c \in CompositeLists}
    \cup
    {[n \in {"simulant.json", "composition.json", "chemical_composition.json",
             "mineral_groups.json"} |->
         CASE n = "simulant.json" ->
                  <<[simulant_id |-> "S001", name |-> "JSC-1A", institution |-> "NASA",
                     type |-> ""], SecondSimulant>>
           [] n = "composition.json" -> c
           [] n = "chemical_composition.json" -> <<>>
           [] n = "mineral_groups.json" -> RemainingGroups] :
        c \in CompositeLists}

Updaters == {"update_composition_from_pdfs", "update_database_full"}

InitStore ==
    /\ tool \in Updaters \cup {"extract_from_specsheets", "fix_mineral_duplicates",
                            "populate_mineral_groups"}
    /\ pc = "start"
    /\ files \in CASE tool = "fix_mineral_duplicates" -> DataDirs \cup FixDirs
                   [] tool = "populate_mineral_groups" -> DataDirs \cup PopulateDirs
                   [] OTHER -> DataDirs
    /\ backups = <<>>
    /\ database = <<>>
    /\ extractions = <<>>
    /\ client = FALSE
    /\ NoPipeline
    /\ sheet = NoSheet
    /\ NoBatch
    /\ NoUpdate
    /\ composition = <<>>
    /\ chemicals = <<>>
    /\ mineral_groups = <<>>
    /\ pending \in CASE tool \in Updaters -> ListsUpTo(ExtractedData, MaxDocs)
                     [] tool = "extract_from_specsheets" -> ListsUpTo(SpecSheets, MaxDocs)
                     [] OTHER -> {<<>>}
    /\ aggregated_data = <<>>
    /\ new_minerals = <<>>
    /\ new_chemicals = <<>>
    /\ NoExtract

(***************************************************************************)
(* update_composition_from_pdfs.py and update_database_full.py: run        *)
(***************************************************************************)
TableFiles == <<"composition.json", "chemical_composition.json", "mineral_groups.json",
                "simulant.json">>

\* _load_json: the content of the file, [] when it does not exist
load_json(name) == IF name \in DOMAIN files THEN files[name] ELSE <<>>

\* __init__ of either updater: the four tables are loaded
UpdaterInit ==
    /\ tool \in Updaters /\ pc = "start"
    /\ database' = load_json("simulant.json")
    /\ composition' = load_json("composition.json")
    /\ chemicals' = load_json("chemical_composition.json")
    /\ mineral_groups' = load_json("mineral_groups.json")
    /\ pc' = "loaded"
    /\ UNCHANGED <<tool, diskVars, inputVars, extractVars, pipelineVars, batchVars, updateVars,
                   pending, aggregated_data, new_minerals, new_chemicals>>

\* CompositionDatabaseUpdater.run: no TDS files, nothing is done
UpdaterNoFiles ==
    /\ tool = "update_composition_from_pdfs" /\ pc = "loaded"
    /\ pending = <<>>
    /\ pc' = "done"
    /\ UNCHANGED <<tool, database, diskVars, inputVars, extractVars, pipelineVars, batchVars,
                   updateVars, storeVars>>

\* run: _backup_file for each of the four files that exist
UpdaterBackup ==
    /\ tool \in Updaters /\ pc = "loaded"
    /\ tool = "update_composition_from_pdfs" => pending # <<>>
    /\ backups' = backups \o
          [k \in 1..Len(SelectSeq(TableFiles, LAMBDA n : n \in DOMAIN files)) |->
              LET n == SelectSeq(TableFiles, LAMBDA m : m \in DOMAIN files)[k]
              IN  [name |-> n, content |-> files[n]]]
    /\ pc' = "processing"
    /\ UNCHANGED <<tool, database, files, inputVars, extractVars, pipelineVars, batchVars,
                   updateVars, storeVars>>

\* CompositionDatabaseUpdater.run: process_pdf and the updates for one PDF
ProcessPdf ==
    /\ tool = "update_composition_from_pdfs" /\ pc = "processing"
    /\ pending # <<>>
    /\ LET data == Head(pending)
           sim_id == find_simulant_id(database, data.name)
           st == UpdateAll([composition |-> composition, chemicals |-> chemicals,
                            mineral_groups |-> mineral_groups, simulants |-> database],
                           sim_id, data)
       IN  IF ~Truthy(data.name) \/ sim_id = None
           THEN UNCHANGED <<database, tableVars>>
           ELSE /\ composition' = st.composition
                /\ chemicals' = st.chemicals
                /\ mineral_groups' = st.mineral_groups
                /\ database' = st.simulants
    /\ pending' = Tail(pending)
    /\ UNCHANGED <<tool, pc, diskVars, inputVars, extractVars, pipelineVars, batchVars, updateVars,
                   aggregated_data, new_minerals, new_chemicals>>

\* FullDatabaseUpdater.run: process_file and aggregate_results for one record
AggregateResults ==
    /\ tool = "update_database_full" /\ pc = "processing"
    /\ pending # <<>>
    /\ aggregated_data' = aggregate_results(aggregated_data, database, Head(pending))
    /\ pending' = Tail(pending)
    /\ UNCHANGED <<tool, pc, database, diskVars, inputVars, extractVars, pipelineVars, batchVars,
                   updateVars, tableVars, new_minerals, new_chemicals>>

\* FullDatabaseUpdater.run: apply_aggregated_data
ApplyAggregatedData ==
    /\ tool = "update_database_full" /\ pc = "processing"
    /\ pending = <<>>
    /\ LET st == apply_aggregated_data(
                    [composition |-> composition, chemicals |-> chemicals,
                     mineral_groups |-> mineral_groups, simulants |-> database],
                    aggregated_data)
       IN  /\ composition' = st.composition
           /\ chemicals' = st.chemicals
           /\ mineral_groups' = st.mineral_groups
           /\ database' = st.simulants
    /\ pc' = "applied"
    /\ UNCHANGED <<tool, diskVars, inputVars, extractVars, pipelineVars, batchVars, updateVars,
                   pending, aggregated_data, new_minerals, new_chemicals>>

\* run: _save_json of the four tables
UpdaterSave ==
    /\ \/ tool = "update_composition_from_pdfs" /\ pc = "processing" /\ pending = <<>>
       \/ tool = "update_database_full" /\ pc = "applied"
    /\ files' = [n \in DOMAIN files \cup Range(TableFiles) |->
                    CASE n = "composition.json" -> composition
                      [] n = "chemical_composition.json" -> chemicals
                      [] n = "mineral_groups.json" -> mineral_groups
                      [] n = "simulant.json" -> database
                      [] OTHER -> files[n]]
    /\ pc' = "done"
    /\ UNCHANGED <<tool, database, backups, inputVars, extractVars, pipelineVars, batchVars,
                   updateVars, storeVars>>

(***************************************************************************)
(* extract_from_specsheets.py: main                                        *)
(***************************************************************************)
validate_composition(data) ==
    /\ data.minerals # <<>> =>
          ~(SumValues(data.minerals) < 90) /\ ~(SumValues(data.minerals) > 105)
    /\ data.chemicals # <<>> =>
          ~(SumValues(data.chemicals) < 90) /\ ~(SumValues(data.chemicals) > 105)

\* get_simulant_id: the first record of that name
get_simulant_id(simulant_name, simulants) ==
    LET hits == {i \in 1..Len(simulants) : simulants[i].name = simulant_name}
    IN  IF hits = {} THEN None
        ELSE simulants[CHOOSE i \in hits : \A j \in hits : i <= j].simulant_id

get_existing_minerals(simulant_id, compositions) ==
    {c.component_name : c \in {d \in Range(compositions) :
        d.simulant_id = simulant_id /\ d.component_type = "mineral"}}

get_existing_chemicals(simulant_id, chems) ==
    {c.component_name : c \in {d \in Range(chems) : d.simulant_id = simulant_id}}

\* the highest id number of a table, 0 when it is empty
MaxId(table) == IF table = <<>> THEN 0 ELSE Max({c.composition_id : c \in Range(table)})

\* main: the tables are loaded
SpecsheetsLoad ==
    /\ tool = "extract_from_specsheets" /\ pc = "start"
    /\ database' = files["simulant.json"]
    /\ composition' = files["composition.json"]
    /\ chemicals' = files["chemical_composition.json"]
    /\ pc' = "processing"
    /\ UNCHANGED <<tool, diskVars, inputVars, extractVars, pipelineVars, batchVars, updateVars,
                   mineral_groups, pending, aggregated_data, new_minerals, new_chemicals>>

\* main: one spec sheet.  max_comp_id and max_chem_id are the highest loaded
\* id plus the number of entries staged so far.
SpecsheetsProcess ==
    /\ tool = "extract_from_specsheets" /\ pc = "processing"
    /\ pending # <<>>
    /\ LET data == Head(pending)
           simulant_id == get_simulant_id(data.simulant_name, database)
           max_comp_id == MaxId(composition) + Len(new_minerals)
           max_chem_id == MaxId(chemicals) + Len(new_chemicals)
       IN  IF \/ data.simulant_name = ""
              \/ ~validate_composition(data)
              \/ simulant_id = None
           THEN UNCHANGED <<new_minerals, new_chemicals>>
           ELSE /\ new_minerals' =
                     IF get_existing_minerals(simulant_id, composition) = {}
                     THEN new_minerals \o
                          [k \in 1..Len(data.minerals) |->
                              Mineral(max_comp_id + k, simulant_id,
                                      data.minerals[k].k, data.minerals[k].v)]
                     ELSE new_minerals
                /\ new_chemicals' =
                     IF get_existing_chemicals(simulant_id, chemicals) = {}
                     THEN new_chemicals \o
                          [k \in 1..Len(data.chemicals) |->
                              Oxide(max_chem_id + k, simulant_id,
                                    data.chemicals[k].k, data.chemicals[k].v)]
                     ELSE new_chemicals
    /\ pending' = Tail(pending)
    /\ UNCHANGED <<tool, pc, database, diskVars, inputVars, extractVars, pipelineVars, batchVars,
                   updateVars, tableVars, aggregated_data>>

\* main: "Save changes? [y/N]" when there are new entries, then the write of
\* the tables that gained entries
SpecsheetsSave ==
    /\ tool = "extract_from_specsheets" /\ pc = "processing"
    /\ pending = <<>>
    /\ \E response \in {"y", "n"} :
          IF (new_minerals # <<>> \/ new_chemicals # <<>>) /\ response = "y"
          THEN /\ composition' = composition \o new_minerals
               /\ chemicals' = chemicals \o new_chemicals
               /\ files' = [n \in DOMAIN files |->
                    CASE n = "composition.json" /\ new_minerals # <<>> ->
                             composition \o new_minerals
                      [] n = "chemical_composition.json" /\ new_chemicals # <<>> ->
                             chemicals \o new_chemicals
                      [] OTHER -> files[n]]
          ELSE UNCHANGED <<composition, chemicals, files>>
    /\ pc' = "done"
    /\ UNCHANGED <<tool, database, backups, inputVars, extractVars, pipelineVars, batchVars,
                   updateVars, mineral_groups, pending, aggregated_data, new_minerals,
                   new_chemicals>>

(***************************************************************************)
(* fix_mineral_duplicates.py: main                                         *)
(***************************************************************************)
FixMineralDuplicates ==
    /\ tool = "fix_mineral_duplicates" /\ pc = "start"
    /\ database' = files["simulant.json"]
    /\ composition' = files["composition.json"]
    /\ files' = [files EXCEPT !["composition.json"] = FixedCompositions(@)]
    /\ pc' = "done"
    /\ UNCHANGED <<tool, backups, inputVars, extractVars, pipelineVars, batchVars, updateVars,
                   chemicals, mineral_groups, pending, aggregated_data, new_minerals,
                   new_chemicals>>

(***************************************************************************)
(* populate_mineral_groups.py.  A share of a percentage is held in sixths  *)
(* of a percent, which is exact for value / len(parts) with up to three    *)
(* parts; a value written to mineral_groups.json by this script is held in *)
(* hundredths of a percent, the precision round(x, 2) keeps.               *)
(***************************************************************************)
\* MINERAL_TO_GROUP, in the order of the dict
MINERAL_TO_GROUP ==
    <<Item("Plagioclase", "Plagioclase Feldspar"), Item("Anorthite", "Plagioclase Feldspar"),
      Item("Labradorite", "Plagioclase Feldspar"), Item("Bytownite", "Plagioclase Feldspar"),
      Item("Albite", "Plagioclase Feldspar"), Item("Anorthosite", "Plagioclase Feldspar"),
      Item("Feldspar", "Plagioclase Feldspar"),
      Item("Pyroxene", "Pyroxene"), Item("Augite", "Pyroxene"),
      Item("Clinopyroxene", "Pyroxene"), Item("Orthopyroxene", "Pyroxene"),
      Item("Bronzite", "Pyroxene"), Item("Pigeonite", "Pyroxene"),
      Item("Diopside", "Pyroxene"), Item("Enstatite", "Pyroxene"),
      Item("Hypersthene", "Pyroxene"),
      Item("Olivine", "Olivine"), Item("Forsterite", "Olivine"), Item("Fayalite", "Olivine"),
      Item("Ilmenite", "Ilmenite"),
      Item("Glass", "Glass"), Item("Volcanic Glass", "Glass"), Item("Agglutinate", "Glass"),
      Item("Basaltic Ash", "Glass")>>

NASA_GROUPS == <<"Plagioclase Feldspar", "Pyroxene", "Olivine", "Ilmenite", "Glass">>

\* MINERAL_TO_GROUP[name], None when the name is not a key
GroupOf(name) ==
    LET hits == {i \in 1..Len(MINERAL_TO_GROUP) : MINERAL_TO_GROUP[i].k = name}
    IN  IF hits = {} THEN None ELSE MINERAL_TO_GROUP[CHOOSE i \in hits : TRUE].v

\* [p.strip() for p in name.lower().split('+')] for the names that occur; a
\* name without '+' is its only part
SplitPlus(name) ==
    CASE name = "Olivine + pyroxene + ilmenite" -> <<"olivine", "pyroxene", "ilmenite">>
      [] name = "Olivine + quartz" -> <<"olivine", "quartz">>
      [] name = "Augite + pigeonite" -> <<"augite", "pigeonite">>
      [] name = "Glass +" -> <<"glass", "">>
      [] OTHER -> <<name>>

\* '+' in name
HasPlus(name) == Len(SplitPlus(name)) > 1

\* the keys of MINERAL_TO_GROUP for which
\* mineral.lower() in part or part in mineral.lower(), for the parts that occur
PartMatches(part) ==
    CASE part = "olivine" -> {"Olivine"}
      [] part = "pyroxene" -> {"Pyroxene", "Clinopyroxene", "Orthopyroxene"}
      [] part = "ilmenite" -> {"Ilmenite"}
      [] part = "augite" -> {"Augite"}
      [] part = "pigeonite" -> {"Pigeonite"}
      [] part = "glass" -> {"Glass", "Volcanic Glass"}
      [] part = "" -> Keys(MINERAL_TO_GROUP)
      [] OTHER -> {}

\* result[k] += amount, result[k] starting at 0
AddTo(result, k, amount) ==
    IF k \in Keys(result)
    THEN [i \in 1..Len(result) |->
             IF result[i].k = k THEN Item(k, result[i].v + amount) ELSE result[i]]
    ELSE Append(result, Item(k, amount))

\* value / n, in sixths of a percent
Share(value, n) == (6 * value) \div n

\* parse_composite_mineral: the loop over the parts; the first key of
\* MINERAL_TO_GROUP that matches a part gives its group
RECURSIVE CompositeShares(_, _, _, _)
CompositeShares(parts, value, n, result) ==
    IF parts = <<>> THEN result
    ELSE LET hits == {i \in 1..Len(MINERAL_TO_GROUP) :
                         MINERAL_TO_GROUP[i].k \in PartMatches(Head(parts))}
         IN  CompositeShares(Tail(parts), value, n,
                 IF hits = {} THEN result
                 ELSE AddTo(result,
                            MINERAL_TO_GROUP[CHOOSE i \in hits : \A j \in hits : i <= j].v,
                            Share(value, n)))

parse_composite_mineral(name, value) ==
    IF HasPlus(name)
    THEN CompositeShares(SplitPlus(name), value, Len(SplitPlus(name)), <<>>)
    ELSE <<>>

\* simulant_minerals[sim_id][group] += amount for each item of a dict
RECURSIVE AddShares(_, _, _)
AddShares(totals, sim_id, shares) ==
    IF shares = <<>> THEN totals
    ELSE LET known == sim_id \in Keys(totals)
             old == IF known
                    THEN totals[CHOOSE i \in 1..Len(totals) : totals[i].k = sim_id].v
                    ELSE <<>>
             new == AddTo(old, Head(shares).k, Head(shares).v)
         IN  AddShares(IF known
                       THEN [i \in 1..Len(totals) |->
                                IF totals[i].k = sim_id THEN Item(sim_id, new)
                                ELSE totals[i]]
                       ELSE Append(totals, Item(sim_id, new)),
                       sim_id, Tail(shares))

\* main: the loop that aggregates the minerals by simulant
RECURSIVE simulant_minerals(_, _)
simulant_minerals(compositions, totals) ==
    IF compositions = <<>> THEN totals
    ELSE LET comp == Head(compositions)
             name == comp.component_name
         IN  simulant_minerals(Tail(compositions),
                 IF comp.component_type # "mineral" \/ ~Truthy(comp.simulant_id)
                    \/ ~Truthy(name)
                 THEN totals
                 ELSE IF HasPlus(name)
                 THEN AddShares(totals, comp.simulant_id,
                                parse_composite_mineral(name, comp.value_pct))
                 ELSE IF GroupOf(name) # None
                 THEN AddShares(totals, comp.simulant_id,
                                <<Item(GroupOf(name), Share(comp.value_pct, 1))>>)
                 ELSE totals)

\* round(x, 2) of a total in sixths, in hundredths; no total lies halfway
\* between two hundredths
Round2(sixths) == (100 * sixths + 3) \div 6

\* main: the entries generated for the simulants without group data
RECURSIVE new_groups(_, _, _)
new_groups(totals, existing_simulant_ids, group_id_counter) ==
    IF totals = <<>> THEN <<>>
    ELSE IF Head(totals).k \in existing_simulant_ids \/ Head(totals).v = <<>>
    THEN new_groups(Tail(totals), existing_simulant_ids, group_id_counter)
    ELSE [g \in 1..Len(NASA_GROUPS) |->
             LET hits == {i \in 1..Len(Head(totals).v) :
                             Head(totals).v[i].k = NASA_GROUPS[g]}
             IN  Group(group_id_counter + g - 1, Head(totals).k, NASA_GROUPS[g],
                       IF hits = {} THEN Round2(0)
                       ELSE Round2(Head(totals).v[CHOOSE i \in hits : TRUE].v))]
         \o new_groups(Tail(totals), existing_simulant_ids,
                       group_id_counter + Len(NASA_GROUPS))

\* main: the list written to mineral_groups.json
all_groups(compositions, existing_groups) ==
    existing_groups \o
    new_groups(simulant_minerals(compositions, <<>>),
               {g.simulant_id : g \in Range(existing_groups)},
               Len(existing_groups) + 1)

PopulateMineralGroups ==
    /\ tool = "populate_mineral_groups" /\ pc = "start"
    /\ composition' = files["composition.json"]
    /\ database' = files["simulant.json"]
    /\ mineral_groups' = load_json("mineral_groups.json")
    /\ files' = [n \in DOMAIN files \cup {"mineral_groups.json"} |->
                    IF n = "mineral_groups.json"
                    THEN all_groups(files["composition.json"],
                                    load_json("mineral_groups.json"))
                    ELSE files[n]]
    /\ pc' = "done"
    /\ UNCHANGED <<tool, backups, inputVars, extractVars, pipelineVars, batchVars, updateVars,
                   chemicals, pending, aggregated_data, new_minerals, new_chemicals>>

(***************************************************************************)
(* extractors/specsheet_extractor.py: the composition layers of            *)
(* SpecSheetExtractor.extract_from_pdf.  A dict is the list of its items   *)
(* in insertion order.  What the regular expressions and the table parser  *)
(* find in a document is the input: a header/values pairing is the list of *)
(* (component, captured number) pairs it aligns, a text capture is the     *)
(* list of numbers the patterns of a component capture, in pattern order.  *)
(* A captured number is \d+\.?\d*, so it is never negative.                *)
(***************************************************************************)
\* the keys of OXIDE_PATTERNS, in the order of the dict
OXIDE_PATTERNS ==
    <<"SiO2", "TiO2", "Al2O3", "Fe2O3", "FeO", "MgO", "CaO", "Na2O", "K2O", "P2O5",
      "MnO", "Cr2O3", "NiO", "ZnO", "SrO", "BaO", "SO3", "LOI">>

\* the keys of MINERAL_PATTERNS, in the order of the dict
MINERAL_PATTERNS ==
    <<"anorthite", "plagioclase", "augite", "pyroxene", "clinopyroxene", "orthopyroxene",
      "olivine", "forsterite", "fayalite", "ilmenite", "glass", "basalt", "quartz",
      "feldspar", "magnetite", "hematite", "hornblende", "analcime", "smectite", "illite",
      "lizardite", "serpentine", "agglutinate">>

\* 0 <= value <= 100
InRange(value) == 0 <= value /\ value <= 100

\* d[k] = v
SetItem(d, k, v) ==
    IF k \in Keys(d)
    THEN [i \in 1..Len(d) |-> IF d[i].k = k THEN Item(k, v) ELSE d[i]]
    ELSE Append(d, Item(k, v))

\* the loop that stores the values of a pairing that are in range, over
\* whatever the dict already holds: _match_oxide_headers_to_values,
\* _match_mineral_groups_to_values, _parse_header_value_table
RECURSIVE StoreInRange(_, _)
StoreInRange(pairs, d) ==
    IF pairs = <<>> THEN d
    ELSE StoreInRange(Tail(pairs),
                      IF InRange(Head(pairs).v) THEN SetItem(d, Head(pairs).k, Head(pairs).v)
                      ELSE d)

\* _match_mineral_headers_to_values: a value in range is stored unless the
\* mineral already has one
RECURSIVE StoreNew(_, _)
StoreNew(pairs, d) ==
    IF pairs = <<>> THEN d
    ELSE StoreNew(Tail(pairs),
                  IF InRange(Head(pairs).v) /\ Head(pairs).k \notin Keys(d)
                  THEN Append(d, Head(pairs)) ELSE d)

\* _parse_multiline_oxide_table: the pairings in the order the lines are
\* visited; it returns once five oxides are held
RECURSIVE parse_multiline_oxide_table(_, _)
parse_multiline_oxide_table(rows, chem) ==
    IF rows = <<>> THEN chem
    ELSE LET matched == StoreInRange(Head(rows), chem)
         IN  IF Len(matched) >= 5 THEN matched
             ELSE parse_multiline_oxide_table(Tail(rows), matched)

\* the first captured number that is in range, as a list of one number, and
\* the empty list when there is none
RECURSIVE FirstInRange(_)
FirstInRange(captures) ==
    IF captures = <<>> THEN <<>>
    ELSE IF InRange(Head(captures)) THEN <<Head(captures)>>
    ELSE FirstInRange(Tail(captures))

\* the loop over the patterns of the components that do not have a value yet
RECURSIVE parse_text(_, _, _)
parse_text(components, captures, d) ==
    IF components = <<>> THEN d
    ELSE LET c == Head(components)
             hits == {i \in 1..Len(captures) : captures[i].k = c}
             value == IF hits = {} THEN <<>>
                      ELSE FirstInRange(captures[CHOOSE i \in hits : TRUE].v)
         IN  parse_text(Tail(components), captures,
                        IF c \in Keys(d) \/ value = <<>> THEN d
                        ELSE Append(d, Item(c, value[1])))

\* _parse_oxide_tables, _parse_mineral_tables: _parse_header_value_table for
\* each table
RECURSIVE parse_tables(_, _)
parse_tables(tables, d) ==
    IF tables = <<>> THEN d
    ELSE parse_tables(Tail(tables), StoreInRange(Head(tables), d))

\* _parse_multiline_mineral_table: a NASA groups table is stored in
\* mineral_groups, a detailed table in mineral_composition
RECURSIVE parse_multiline_mineral_table(_, _)
parse_multiline_mineral_table(rows, d) ==
    IF rows = <<>> THEN d
    ELSE parse_multiline_mineral_table(Tail(rows),
            IF Head(rows).kind = "groups"
            THEN [d EXCEPT !.mineral_groups = StoreInRange(Head(rows).pairs, @)]
            ELSE [d EXCEPT !.mineral_composition = StoreNew(Head(rows).pairs, @)])

\* Method 4 of _extract_mineral_composition: the first capture in range of
\* each mineral of the groups section is stored in mineral_groups
RECURSIVE parse_groups_section(_, _, _)
parse_groups_section(components, captures, groups) ==
    IF components = <<>> THEN groups
    ELSE LET c == Head(components)
             hits == {i \in 1..Len(captures) : captures[i].k = c}
             value == IF hits = {} THEN <<>>
                      ELSE FirstInRange(captures[CHOOSE i \in hits : TRUE].v)
         IN  parse_groups_section(Tail(components), captures,
                                  IF value = <<>> THEN groups
                                  ELSE SetItem(groups, c, value[1]))

\* _extract_basic_info: the type and the NASA FoM score the patterns capture
ExtractBasicInfo ==
    /\ tool = "specsheet_extractor" /\ pc = "start"
    /\ sim_data' = [sim_data EXCEPT
                        !.type = IF doc.basic.type # <<>> THEN doc.basic.type[1] ELSE @,
                        !.nasa_fom_score = IF doc.basic.fom # <<>> THEN doc.basic.fom ELSE @]
    /\ pc' = "basic_info"
    /\ UNCHANGED <<tool, database, diskVars, inputVars, pipelineVars, batchVars,
                   updateVars, storeVars, doc, sources, attempted>>

\* _extract_chemical_composition, method 1
ParseMultilineOxideTable ==
    /\ tool = "specsheet_extractor" /\ pc = "basic_info"
    /\ sim_data' = [sim_data EXCEPT !.chemical_composition =
                        parse_multiline_oxide_table(doc.oxide_rows, @)]
    /\ attempted' = [attempted EXCEPT !.oxides = Append(@, [layer |-> "block",
                                      held |-> Len(sim_data.chemical_composition)])]
    /\ pc' = "oxide_rows"
    /\ UNCHANGED <<tool, database, diskVars, inputVars, pipelineVars, batchVars,
                   updateVars, storeVars, doc, sources>>

\* _extract_chemical_composition, method 2
ParseOxideText ==
    /\ tool = "specsheet_extractor" /\ pc = "oxide_rows"
    /\ sim_data' = IF Len(sim_data.chemical_composition) < 5
                   THEN [sim_data EXCEPT !.chemical_composition =
                            parse_text(OXIDE_PATTERNS, doc.oxide_text, @)]
                   ELSE sim_data
    /\ attempted' = IF Len(sim_data.chemical_composition) < 5
                    THEN [attempted EXCEPT !.oxides = Append(@, [layer |-> "inline",
                                      held |-> Len(sim_data.chemical_composition)])]
                    ELSE attempted
    /\ pc' = "oxide_text"
    /\ UNCHANGED <<tool, database, diskVars, inputVars, pipelineVars, batchVars,
                   updateVars, storeVars, doc, sources>>

\* _extract_chemical_composition, method 3
ParseOxideTables ==
    /\ tool = "specsheet_extractor" /\ pc = "oxide_text"
    /\ sim_data' = IF Len(sim_data.chemical_composition) < 5
                   THEN [sim_data EXCEPT !.chemical_composition =
                            parse_tables(doc.oxide_tables, @)]
                   ELSE sim_data
    /\ attempted' = IF Len(sim_data.chemical_composition) < 5
                    THEN [attempted EXCEPT !.oxides = Append(@, [layer |-> "table",
                                      held |-> Len(sim_data.chemical_composition)])]
                    ELSE attempted
    /\ pc' = "oxide_tables"
    /\ UNCHANGED <<tool, database, diskVars, inputVars, pipelineVars, batchVars,
                   updateVars, storeVars, doc, sources>>

\* _extract_mineral_composition, method 1
ParseMultilineMineralTable ==
    /\ tool = "specsheet_extractor" /\ pc = "oxide_tables"
    /\ sim_data' = parse_multiline_mineral_table(doc.mineral_rows, sim_data)
    /\ attempted' = [attempted EXCEPT !.minerals = Append(@, [layer |-> "block",
                                      held |-> Len(sim_data.mineral_composition)])]
    /\ pc' = "mineral_rows"
    /\ UNCHANGED <<tool, database, diskVars, inputVars, pipelineVars, batchVars,
                   updateVars, storeVars, doc, sources>>

\* _extract_mineral_composition, method 2
ParseMineralText ==
    /\ tool = "specsheet_extractor" /\ pc = "mineral_rows"
    /\ sim_data' = IF Len(sim_data.mineral_composition) < 3
                   THEN [sim_data EXCEPT !.mineral_composition =
                            parse_text(MINERAL_PATTERNS, doc.mineral_text, @)]
                   ELSE sim_data
    /\ attempted' = IF Len(sim_data.mineral_composition) < 3
                    THEN [attempted EXCEPT !.minerals = Append(@, [layer |-> "inline",
                                      held |-> Len(sim_data.mineral_composition)])]
                    ELSE attempted
    /\ pc' = "mineral_text"
    /\ UNCHANGED <<tool, database, diskVars, inputVars, pipelineVars, batchVars,
                   updateVars, storeVars, doc, sources>>

\* _extract_mineral_composition, method 3
ParseMineralTables ==
    /\ tool = "specsheet_extractor" /\ pc = "mineral_text"
    /\ sim_data' = IF Len(sim_data.mineral_composition) < 3
                   THEN [sim_data EXCEPT !.mineral_composition =
                            parse_tables(doc.mineral_tables, @)]
                   ELSE sim_data
    /\ attempted' = IF Len(sim_data.mineral_composition) < 3
                    THEN [attempted EXCEPT !.minerals = Append(@, [layer |-> "table",
                                      held |-> Len(sim_data.mineral_composition)])]
                    ELSE attempted
    /\ pc' = "mineral_tables"
    /\ UNCHANGED <<tool, database, diskVars, inputVars, pipelineVars, batchVars,
                   updateVars, storeVars, doc, sources>>

\* _extract_mineral_composition, method 4
ParseGroupsSection ==
    /\ tool = "specsheet_extractor" /\ pc = "mineral_tables"
    /\ sim_data' = IF doc.groups_section.found
                   THEN [sim_data EXCEPT !.mineral_groups =
                            parse_groups_section(MINERAL_PATTERNS,
                                                 doc.groups_section.captures, @)]
                   ELSE sim_data
    /\ attempted' = attempted
    /\ pc' = "mineral_groups"
    /\ UNCHANGED <<tool, database, diskVars, inputVars, pipelineVars, batchVars,
                   updateVars, storeVars, doc, sources>>

\* SpecSheetExtractor._extract_physical_properties: each capture is stored as
\* float(match.group(1)).  The generic density patterns are tried only while
\* density_mean is None, and the D50 pattern comes after the Median pattern
\* and writes the same attribute
extract_physical_properties(physical, data) ==
    [data EXCEPT
        !.density_mean = IF physical.density_mean # <<>> THEN physical.density_mean
                         ELSE IF physical.density_fallback # <<>>
                              THEN physical.density_fallback
                              ELSE @,
        !.particle_size_median = IF physical.d50 # <<>> THEN physical.d50
                                 ELSE IF physical.median # <<>> THEN physical.median
                                      ELSE @,
        !.friction_angle_deg = IF physical.friction # <<>> THEN physical.friction ELSE @,
        !.cohesion_kpa = IF physical.cohesion # <<>> THEN physical.cohesion ELSE @]

\* `if data.x:` for an Optional[float]: neither None nor 0.0
NonZero(x) == x # <<>> /\ x[1] # 0

\* SpecSheetExtractor._calculate_confidence
calculate_confidence(data) ==
    LET name_score == IF data.name # <<>> /\ Len(data.name) > 2 THEN 20 ELSE 0
        type_score == IF data.type # "" THEN 10 ELSE 0
        chem_count == Len(data.chemical_composition)
        chem_score == IF chem_count >= 5 THEN 25
                      ELSE IF chem_count >= 3 THEN 15
                      ELSE IF chem_count >= 1 THEN 5 ELSE 0
        mineral_count == Len(data.mineral_composition)
        mineral_score == IF mineral_count >= 5 THEN 20
                         ELSE IF mineral_count >= 3 THEN 12
                         ELSE IF mineral_count >= 1 THEN 5 ELSE 0
        density_score == IF NonZero(data.density_mean) THEN 5 ELSE 0
        size_score == IF NonZero(data.particle_size_median) THEN 5 ELSE 0
        fom_score == IF NonZero(data.nasa_fom_score) THEN 10 ELSE 0
        total_oxides == SumValues(data.chemical_composition)
        total_score == IF data.chemical_composition # <<>>
                          /\ 90 <= total_oxides /\ total_oxides <= 105
                       THEN 5 ELSE 0
        score == name_score + type_score + chem_score + mineral_score
                 + density_score + size_score + fom_score + total_score
    IN  IF score < 100 THEN score ELSE 100

\* extract_from_pdf: _extract_physical_properties (the raw materials that
\* follow are not part of the state)
ExtractPhysicalProperties ==
    /\ tool = "specsheet_extractor" /\ pc = "mineral_groups"
    /\ sim_data' = extract_physical_properties(doc.physical, sim_data)
    /\ pc' = "physical"
    /\ UNCHANGED <<tool, database, diskVars, inputVars, pipelineVars, batchVars,
                   updateVars, storeVars, doc, sources, attempted>>

\* extract_from_pdf: data.extraction_confidence = self._calculate_confidence(data)
CalculateConfidence ==
    /\ tool = "specsheet_extractor" /\ pc = "physical"
    /\ sim_data' = [sim_data EXCEPT !.extraction_confidence = calculate_confidence(sim_data)]
    /\ pc' = "done"
    /\ UNCHANGED <<tool, database, diskVars, inputVars, pipelineVars, batchVars,
                   updateVars, storeVars, doc, sources, attempted>>

\* the pairs a header line and a values line align, position by position
Pairs(names, values) == [i \in 1..Len(names) |-> Item(names[i], values[i])]

\* header/values pairings of a multi-line oxide table: none, one whose five
\* values are percentages, one with a value that is not, and that one
\* followed by a second table
OxideRows ==
    LET header == <<"SiO2", "TiO2", "Al2O3", "Fe2O3", "MgO">>
    IN  { <<>>,
          <<Pairs(header, <<45, 2, 15, 10, 9>>)>>,
          <<Pairs(header, <<45, 150, 15, 10, 9>>)>>,
          <<Pairs(header, <<45, 150, 15, 10, 9>>), Pairs(header, <<47, 1, 16, 11, 8>>)>> }

\* what the inline oxide patterns capture
OxideTexts ==
    { <<>>,
      <<Item("SiO2", <<44>>), Item("TiO2", <<3>>), Item("CaO", <<150, 11>>)>>,
      <<Item("TiO2", <<150>>), Item("Na2O", <<4>>)>> }

\* the pdfplumber tables with oxide columns
OxideTables ==
    { <<>>,
      <<Pairs(<<"SiO2", "TiO2", "K2O">>, <<46, 1, 150>>)>>,
      <<Pairs(<<"SiO2", "CaO">>, <<48, 12>>), Pairs(<<"CaO", "Fe2O3">>, <<13, 0>>)>> }

\* multi-line mineral tables: a NASA groups header with four or five of the
\* group names, or a detailed header
MineralRows ==
    { <<>>,
      <<[kind |-> "groups",
         pairs |-> Pairs(<<"Plagioclase Feldspar", "Pyroxene", "Olivine", "Ilmenite", "Glass">>,
                         <<40, 20, 10, 5, 25>>)]>>,
      <<[kind |-> "groups",
         pairs |-> Pairs(<<"Plagioclase Feldspar", "Pyroxene", "Olivine", "Glass">>,
                         <<40, 150, 10, 25>>)]>>,
      <<[kind |-> "detailed",
         pairs |-> Pairs(<<"anorthite", "augite", "quartz">>, <<50, 20, 150>>)]>>,
      <<[kind |-> "detailed",
         pairs |-> Pairs(<<"anorthite", "augite", "quartz">>, <<50, 20, 10>>)]>> }

\* what the inline mineral patterns capture
MineralTexts ==
    { <<>>,
      <<Item("anorthite", <<55>>), Item("ilmenite", <<150, 5>>)>> }

\* the pdfplumber tables with mineral columns
MineralTables ==
    { <<>>,
      <<Pairs(<<"anorthite", "glass", "quartz">>, <<60, 150, 3>>)>> }

\* whether the text has a mineral group section, and what the mineral
\* patterns capture in it
GroupsSections ==
    { [found |-> FALSE, captures |-> <<>>],
      [found |-> TRUE, captures |-> <<Item("pyroxene", <<21>>), Item("glass", <<150>>)>>] }

\* the name the file name gives (two characters, or five), and what the type
\* and the FoM patterns capture in the text
BasicInfos ==
    { [name |-> <<"L", "M", "S", "-", "1">>, type |-> <<>>, fom |-> <<>>],
      [name |-> <<"L", "M", "S", "-", "1">>, type |-> <<"Mare">>, fom |-> <<85>>],
      [name |-> <<"L", "M", "S", "-", "1">>, type |-> <<"Mare">>, fom |-> <<0>>],
      [name |-> <<"X", "1">>, type |-> <<"Highland">>, fom |-> <<>>] }

\* what the physical property patterns capture: nothing; a mean density of
\* 1.6 g/cm3 with a median size, a friction angle and a cohesion; a bulk
\* density of 16 g/cm3 and a friction angle of 120; a mean density of 0
\* beside a bulk density, and a D50 beside a median
PhysicalCaptures ==
    LET none == [density_mean |-> <<>>, density_fallback |-> <<>>, median |-> <<>>,
                 d50 |-> <<>>, friction |-> <<>>, cohesion |-> <<>>]
    IN  { none,
          [none EXCEPT !.density_mean = <<16>>, !.median = <<70>>,
                       !.friction = <<35>>, !.cohesion = <<1>>],
          [none EXCEPT !.density_fallback = <<160>>, !.friction = <<120>>],
          [none EXCEPT !.density_mean = <<0>>, !.density_fallback = <<15>>,
                       !.median = <<70>>, !.d50 = <<20000>>] }

\* a multi-line oxide table whose five values add up to 92
CompleteOxideRows ==
    <<Pairs(<<"SiO2", "TiO2", "Al2O3", "Fe2O3", "MgO">>, <<45, 2, 15, 10, 20>>)>>

\* the documents: every combination of composition layers with nothing else
\* in the text, and the documents that have basic information and physical
\* properties beside a multi-line oxide table and a multi-line mineral table
Documents ==
    [oxide_rows : OxideRows, oxide_text : OxideTexts, oxide_tables : OxideTables,
     mineral_rows : MineralRows, mineral_text : MineralTexts,
     mineral_tables : MineralTables, groups_section : GroupsSections,
     basic : {[name |-> <<"L", "M", "S", "-", "1">>, type |-> <<>>, fom |-> <<>>]},
     physical : {[density_mean |-> <<>>, density_fallback |-> <<>>, median |-> <<>>,
                  d50 |-> <<>>, friction |-> <<>>, cohesion |-> <<>>]}]
    \cup
    [oxide_rows : OxideRows \cup {CompleteOxideRows}, oxide_text : {<<>>},
     oxide_tables : {<<>>},
     mineral_rows : MineralRows, mineral_text : {<<>>},
     mineral_tables : {<<>>}, groups_section : {[found |-> FALSE, captures |-> <<>>]},
     basic : BasicInfos, physical : PhysicalCaptures]

\* extract_from_pdf has made the SimulantData, named it after the file and
\* read the document
InitExtract ==
    /\ tool = "specsheet_extractor"
    /\ pc = "start"
    /\ doc \in Documents
    /\ sim_data = [NoData EXCEPT !.name = doc.basic.name]
    /\ sources = <<>>
    /\ attempted = NoAttempts
    /\ files = [n \in {"simulant.json"} |-> <<SecondSimulant>>]
    /\ backups = <<>>
    /\ database = <<>>
    /\ extractions = <<>>
    /\ client = FALSE
    /\ NoPipeline
    /\ sheet = NoSheet
    /\ NoBatch
    /\ NoUpdate
    /\ NoStore

(***************************************************************************)
(* extractors/claude_extractor.py: ClaudeExtractor                         *)
(* extract_from_multiple_sources.  The reply of the API call for a source  *)
(* is an input: the call raises, or the text it returns is not JSON, or it *)
(* is JSON and json.loads gives an object, an array or null.               *)
(***************************************************************************)
\* the Python None as a reply
NoReply == [kind |-> "null"]

LLMExtractions ==
    { [kind |-> "object", value |-> [k \in {"institution", "type"} |->
                                         IF k = "institution" THEN "A" ELSE "Mare"]],
      [kind |-> "object", value |-> [k \in {"type"} |-> "Highland"]],
      [kind |-> "object", value |-> EmptyDict],
      [kind |-> "array", length |-> 1],
      NoReply,
      [kind |-> "invalid_json"],
      [kind |-> "api_error"] }

\* a source whose document could not be decoded has an empty text
SourceDocs ==
    {[source |-> "a.pdf", source_type |-> "pdf", text |-> "text", reply |-> r] :
        r \in LLMExtractions}
    \cup {[source |-> "b.pdf", source_type |-> "pdf", text |-> "",
           reply |-> [kind |-> "api_error"]]}

\* extract_from_text: the value json.loads returns, None when the call or
\* json.loads raises
extract_from_text(reply) ==
    IF reply.kind \in {"invalid_json", "api_error"} THEN NoReply ELSE reply

\* `if extracted:` on a dict, a list or None
ExtractedTruthy(extracted) ==
    CASE extracted.kind = "object" -> DOMAIN extracted.value # {}
      [] extracted.kind = "array" -> extracted.length > 0
      [] OTHER -> FALSE

\* extracted['_source'] = ...; extracted['_source_type'] = ...
WithSource(value, source) ==
    [k \in DOMAIN value \cup {"_source", "_source_type"} |->
        CASE k = "_source" -> source.source
          [] k = "_source_type" -> source.source_type
          [] OTHER -> value[k]]

InitClaude ==
    /\ tool = "claude_extractor"
    /\ pc = "loop"
    /\ sources \in ListsUpTo(SourceDocs, MaxSources)
    /\ extractions = <<>>
    /\ idx = 1
    /\ all_results = <<>>
    /\ stats = [success |-> 0, no_documents |-> 0, no_text |-> 0, errors |-> 0]
    /\ doc = NoDoc
    /\ sim_data = NoData
    /\ attempted = NoAttempts
    /\ files = [n \in {"simulant.json"} |-> <<SecondSimulant>>]
    /\ backups = <<>>
    /\ database = <<>>
    /\ client = TRUE
    /\ NoPipeline
    /\ sheet = NoSheet
    /\ NoUpdate
    /\ NoStore

\* extract_from_multiple_sources: one iteration of the loop over the
\* sources.  Assigning the '_source' key of a list raises TypeError, which
\* nothing in the method catches.
ExtractFromSource ==
    /\ tool = "claude_extractor" /\ pc = "loop"
    /\ idx <= Len(sources)
    /\ LET source == sources[idx]
           extracted == extract_from_text(source.reply)
       IN  IF source.text = "" \/ ~ExtractedTruthy(extracted)
           THEN /\ extractions' = extractions
                /\ pc' = pc
           ELSE IF extracted.kind = "object"
           THEN /\ extractions' = Append(extractions, WithSource(extracted.value, source))
                /\ pc' = pc
           ELSE /\ extractions' = extractions
                /\ pc' = "raised"
    /\ idx' = idx + 1
    /\ UNCHANGED <<tool, database, diskVars, client, pipelineVars, all_results, stats,
                   updateVars, storeVars, extractVars>>

\* extract_from_multiple_sources: return extractions
ExtractReturn ==
    /\ tool = "claude_extractor" /\ pc = "loop"
    /\ idx > Len(sources)
    /\ pc' = "done"
    /\ UNCHANGED <<tool, database, diskVars, inputVars, pipelineVars, batchVars,
                   updateVars, storeVars, extractVars>>

Init == InitPipeline \/ InitBatch \/ InitStore \/ InitExtract \/ InitClaude

Next ==
    \/ SkipComplete
    \/ NoDataExtracted
    \/ ResolveConflicts
    \/ GetAutoFillableFields
    \/ GetReviewRequiredFields
    \/ UpdateSheet
    \/ BatchLoad
    \/ BatchProcessSimulant
    \/ BatchSaveResults
    \/ BatchSaveCsv
    \/ UpdateDatabaseStart
    \/ UpdateDatabaseReturn
    \/ UpdateDatabaseBackup
    \/ UpdateDatabaseApply
    \/ UpdaterInit
    \/ UpdaterNoFiles
    \/ UpdaterBackup
    \/ ProcessPdf
    \/ AggregateResults
    \/ ApplyAggregatedData
    \/ UpdaterSave
    \/ SpecsheetsLoad
    \/ SpecsheetsProcess
    \/ SpecsheetsSave
    \/ FixMineralDuplicates
    \/ PopulateMineralGroups
    \/ ExtractBasicInfo
    \/ ParseMultilineOxideTable
    \/ ParseOxideText
    \/ ParseOxideTables
    \/ ParseMultilineMineralTable
    \/ ParseMineralText
    \/ ParseMineralTables
    \/ ParseGroupsSection
    \/ ExtractPhysicalProperties
    \/ CalculateConfidence
    \/ ExtractFromSource
    \/ ExtractReturn

Spec == Init /\ [][Next]_vars

(***************************************************************************)
(* Properties.                                                             *)
(***************************************************************************)
\* validation_results came from voting (validate_extraction)
ByVoting == llm.kind \in {"none", "api_error", "bad_json"}

Conf(f) == Get(validation_results[f], "confidence", FZero)

NumSources(f) == Get(validation_results[f], "num_sources", 0)

Value(f) == Get(validation_results[f], "value", None)

\* the candidates of field f: the non-null values of the sources, in order
Candidates(f) ==
    SelectSeq([i \in 1..Len(extractions) |-> Get(extractions[i], f, None)],
              LAMBDA v : v \notin NullLike)

\* the highest count among the candidates of f
ModeCount(f) ==
    LET cs == Candidates(f)
    IN  CHOOSE c \in 1..Len(cs) :
            /\ \E i \in 1..Len(cs) : Count(cs, cs[i]) = c
            /\ \A i \in 1..Len(cs) : Count(cs, cs[i]) <= c

\* C1: get_auto_fillable_fields returns a field iff its aggregated result has
\* confidence >= 0.8, num_sources >= 2 and a non-null value, and returns the
\* aggregated value for it.
C1_AutoFillIff ==
    pc \in {"auto", "partitioned"} =>
        /\ DOMAIN auto_fill \subseteq DOMAIN validation_results
        /\ \A f \in DOMAIN validation_results :
              /\ f \in DOMAIN auto_fill <=>
                    /\ ~FLess(Conf(f), FDiv(4, 5))
                    /\ NumSources(f) >= 2
                    /\ Value(f) # None
              /\ f \in DOMAIN auto_fill => auto_fill[f] = Value(f)

\* some field is auto-filled while another, of high confidence, is not
C1_Witness ==
    /\ pc = "auto"
    /\ \E f \in DOMAIN auto_fill : auto_fill[f] = "A"
    /\ \E g \in DOMAIN validation_results \ DOMAIN auto_fill :
          ~FLess(Conf(g), FDiv(4, 5))

\* C2 as stated: the auto-fill set and the review set are disjoint and their
\* union is the set of fields whose aggregated value is non-null.
C2_PartitionOfNonNull ==
    pc = "partitioned" =>
        /\ DOMAIN auto_fill \cap DOMAIN review_required = {}
        /\ DOMAIN auto_fill \cup DOMAIN review_required =
              {f \in DOMAIN validation_results : Value(f) # None}

\* the result map has no num_sources key that the arbitration LLM added
DocumentedFormat ==
    ByVoting \/ \A f \in DOMAIN validation_results :
                    "num_sources" \notin DOMAIN validation_results[f]

\* C2 amended: for a result map produced by voting, or by arbitration in the
\* documented format, the two sets are disjoint and their union is the set of
\* all fields of the map; a field whose value is null is review-required.
C2_PartitionOfAllFields ==
    (pc = "partitioned" /\ DocumentedFormat) =>
        /\ DOMAIN auto_fill \cap DOMAIN review_required = {}
        /\ DOMAIN auto_fill \cup DOMAIN review_required = DOMAIN validation_results
        /\ \A f \in DOMAIN validation_results :
              Value(f) = None => f \in DOMAIN review_required

\* voting gave one auto-fillable field and one null-valued field under review
C2_Witness ==
    /\ pc = "partitioned" /\ ByVoting
    /\ DOMAIN auto_fill # {}
    /\ \E f \in DOMAIN review_required : Value(f) = None

\* the first value, in list order, among those of highest count
FirstSeenMode(s) ==
    s[CHOOSE i \in 1..Len(s) :
          /\ \A j \in 1..Len(s) : Count(s, s[j]) <= Count(s, s[i])
          /\ \A j \in 1..(i - 1) : Count(s, s[j]) < Count(s, s[i])]

\* C3 as stated: the aggregated value of a field is the most frequent
\* candidate and, among candidates of equal highest count, the one that comes
\* first in source order, both in validate_field and in the per-field
\* aggregation of batch process_simulant.
C3_ModeFirstSeen ==
    /\ (pc = "validated" /\ ByVoting) =>
          \A f \in DOMAIN validation_results :
              Candidates(f) # <<>> => Value(f) = FirstSeenMode(Candidates(f))
    /\ all_results # <<>> =>
          \A f \in DOMAIN all_results[1].aggregated :
              all_results[1].aggregated[f] = FirstSeenMode(BatchValues(extractions, f))

\* C4 as stated: with n candidates of which c equal the mode, voting returns
\* num_sources = n, sources_agree = (c/n > 0.5), confidence = c/n for n < 2 and
\* min(1.0, 1.2 * c/n) otherwise; and 2 agreeing candidates out of 3 reach the
\* 0.8 threshold, so the field is auto-fillable.
C4_TwoOfThreeAutoFillable ==
    (pc = "auto" /\ ByVoting) =>
        \A f \in DOMAIN validation_results :
            LET n == Len(Candidates(f))
            IN  n >= 1 =>
                LET c == ModeCount(f)
                IN  /\ NumSources(f) = n
                    /\ validation_results[f].sources_agree = (2 * c > n)
                    /\ Conf(f) = IF n < 2 THEN FDiv(c, n)
                                 ELSE FMin(FOne, FMul(FDiv(c, n), FDiv(6, 5)))
                    /\ (n = 3 /\ c = 2) =>
                          /\ ~FLess(Conf(f), FDiv(4, 5))
                          /\ f \in DOMAIN auto_fill

C6_ArbitratedFieldAutoFillable ==
    (pc = "partitioned" /\ llm.kind = "reply" /\ Len(extractions) >= 2) =>
        \A f \in DOMAIN validation_results :
            ( /\ Value(f) # None
              /\ ~FLess(Conf(f), FDiv(4, 5))
              /\ Get(validation_results[f], "sources_agree", FALSE) ) =>
                /\ f \in DOMAIN auto_fill
                /\ f \notin DOMAIN review_required

\* the auto-fill bar on an aggregated result
ClearsBar(result) ==
    /\ ~FLess(Get(result, "confidence", FZero), FDiv(4, 5))
    /\ Get(result, "num_sources", 0) >= 2
    /\ Get(result, "value", None) # None

\* C7 as stated: a value is written to the record store (the sheet row, or
\* simulant.json) for a field only if the field's aggregated result cleared
\* the auto-fill bar; a value found in one source only is never written.
C7_OnlyClearedValuesWritten ==
    [][ \A f \in Fields :
          /\ ( /\ SheetColumn(f) \in DOMAIN sheet.cells
               /\ sheet'.cells[SheetColumn(f)] # sheet.cells[SheetColumn(f)] ) =>
                  /\ f \in DOMAIN validation_results
                  /\ ClearsBar(validation_results[f])
          /\ ( /\ tool' = "update_database"
               /\ files'["simulant.json"][1][f] # files["simulant.json"][1][f] ) =>
                  ClearsBar(validate_field(
                      [i \in 1..Len(extractions) |-> Get(extractions[i], f, None)]))
      ]_vars

\* a metadata field of simulant.json holds a value: is_empty of
\* update_database.py is false of it (a number is a value)
Populated(record, f) ==
    IF f = "nasa_fom_score" THEN TRUE ELSE record[f] \notin {None, "", "null"}

\* C8 as stated: a simulant metadata field that held a non-empty value before
\* a step of the auto-fill holds the same value after it, in simulant.json
\* and in the sheet row; and an extracted value that differs from a populated
\* one is listed as a conflict and not as an auto-fill.
C8_PopulatedFieldsKept ==
    [][ /\ \A i \in 1..Len(files["simulant.json"]) :
              \A f \in DOMAIN files["simulant.json"][i] :
                  Populated(files["simulant.json"][i], f) =>
                      files'["simulant.json"][i][f] = files["simulant.json"][i][f]
        /\ \A c \in DOMAIN sheet.cells \ {"Data Source"} :
              sheet.cells[c] \notin {None, "", "  "} =>
                  sheet'.cells[c] = sheet.cells[c]
        /\ pc' = "analyzed" =>
              \A i \in 1..Len(database') : \A f \in Fields :
                  LET v == [sim |-> i, field |-> f]
                      extracted == Extracted(database', files["all_results.json"].results, v)
                  IN  ( /\ Truthy(extracted)
                        /\ Populated(database'[i], f)
                        /\ LowerStrip(database'[i][f]) # LowerStrip(extracted) ) =>
                          /\ \E k \in 1..Len(conflicts') :
                                /\ conflicts'[k].sim_id = database'[i].simulant_id
                                /\ conflicts'[k].field = f
                          /\ \A k \in 1..Len(auto_fills') :
                                ~(/\ auto_fills'[k].sim_id = database'[i].simulant_id
                                  /\ auto_fills'[k].field = f)
      ]_vars

\* C9 as stated: an upsert of extracted mineral, chemical or mineral-group
\* values leaves every record the tables held in place with its value, and
\* adds records for a simulant only where the table had none for it.
C9_ExistingRecordsKept ==
    [][ /\ Range(composition) \subseteq Range(composition')
        /\ Range(chemicals) \subseteq Range(chemicals')
        /\ Range(mineral_groups) \subseteq Range(mineral_groups')
        /\ pc = "processing" =>
              /\ \A r \in Range(composition') \ Range(composition) :
                    \A c \in Range(composition) :
                        ~(c.simulant_id = r.simulant_id /\ c.component_type = "mineral")
              /\ \A r \in Range(chemicals') \ Range(chemicals) :
                    \A c \in Range(chemicals) : c.simulant_id # r.simulant_id
              /\ \A r \in Range(mineral_groups') \ Range(mineral_groups) :
                    \A g \in Range(mineral_groups) : g.simulant_id # r.simulant_id
      ]_vars

DataTables == {"simulant.json", "composition.json", "chemical_composition.json",
               "mineral_groups.json"}

\* C10 as stated: whenever a step rewrites a data table, a backup holding the
\* content the table had before the run has already been written.
C10_BackupBeforeRewrite ==
    [][ \A n \in DataTables \cap DOMAIN files :
          files'[n] # files[n] =>
              \E k \in 1..Len(backups) :
                  backups[k] = [name |-> n, content |-> files[n]]
      ]_vars

\* the in-memory tables of an updater, as the update_* operators take them
Tables ==
    [composition |-> composition, chemicals |-> chemicals,
     mineral_groups |-> mineral_groups, simulants |-> database]

\* C11 as stated: after the finalized per-simulant results of a batch have
\* been persisted, persisting the same results again (re-running the batch)
\* leaves the tables as they are: the same records, values and identifiers.
C11_RerunLeavesStore ==
    [][ (tool = "update_database_full" /\ pc = "processing" /\ pc' = "applied") =>
            apply_aggregated_data(Tables', aggregated_data) = Tables'
      ]_vars

\* a finished run of fix_mineral_duplicates.py: `composition` holds the list
\* it loaded, composition.json the list it wrote
FixDone == tool = "fix_mineral_duplicates" /\ pc = "done"

\* the mineral entries of a simulant in a composition list
MineralsOf(table, sim) ==
    SelectSeq(table, LAMBDA c : c.component_type = "mineral" /\ c.simulant_id = sim)

FixInput(sim) == MineralsOf(composition, sim)

FixOutput(sim) == MineralsOf(files["composition.json"], sim)

SimIds == {"S001", "S002"}

\* the entries of a list whose folded name is in a set of names
Named(ms, names) == SelectSeq(ms, LAMBDA m : SAME_AS(m.component_name) \in names)

NamesOf(ms) == {m.component_name : m \in Range(ms)}

\* C12 as stated: when a parent category and one of its children are both
\* among the reconciler's input, the output holds one side only: no child if
\* the parent's summed value exceeds 1.5 times the children's, otherwise no
\* parent.
C12_ParentOrChildren ==
    FixDone =>
        \A sim \in SimIds : \A p \in Range(PARENTS) :
            LET parents == Named(FixInput(sim), {p})
                children == Named(FixInput(sim), PARENT_CHILD(p))
            IN  (parents # <<>> /\ children # <<>>) =>
                    IF 2 * SumPct(parents) > 3 * SumPct(children)
                    THEN NamesOf(FixOutput(sim)) \cap PARENT_CHILD(p) = {}
                    ELSE p \notin NamesOf(FixOutput(sim))

\* C13: the reconciler is idempotent: applied to its own output it returns
\* the same set of entries, and the list the run wrote is that set.
C13_FixIdempotent ==
    FixDone =>
        \A sim \in SimIds :
            LET once == fix_minerals(FixInput(sim))
            IN  /\ Range(FixOutput(sim)) = Range(once)
                /\ Range(fix_minerals(once)) = Range(once)
                /\ Range(fix_minerals(FixOutput(sim))) = Range(once)

\* a run in which the reconciler folded a name and dropped entries of a list
\* summing to more than 110
C13_Witness ==
    /\ FixDone
    /\ \E sim \in SimIds :
          /\ SumPct(FixInput(sim)) > 110
          /\ \E m \in Range(FixInput(sim)) : SAME_AS(m.component_name) # m.component_name
          /\ FixOutput(sim) # <<>>
          /\ Len(FixOutput(sim)) < Len(FixInput(sim))

\* a finished run of populate_mineral_groups.py: `composition` and
\* `mineral_groups` hold the lists it loaded, mineral_groups.json the list it
\* wrote
PopulateDone == tool = "populate_mineral_groups" /\ pc = "done"

\* the group the first matching key gives a part, None for an unrecognized part
PartGroup(part) ==
    LET hits == {i \in 1..Len(MINERAL_TO_GROUP) : MINERAL_TO_GROUP[i].k \in PartMatches(part)}
    IN  IF hits = {} THEN None
        ELSE MINERAL_TO_GROUP[CHOOSE i \in hits : \A j \in hits : i <= j].v

\* C14 as stated: a composite entry of percentage p hands each recognized
\* constituent's group p divided by the number of recognized constituents, so
\* the shares sum to p.
C14_CompositeEvenSplit ==
    PopulateDone =>
        \A c \in Range(composition) :
            (c.component_type = "mineral" /\ HasPlus(c.component_name)) =>
                LET parts == SplitPlus(c.component_name)
                    recognized == {i \in 1..Len(parts) : PartGroup(parts[i]) # None}
                    shares == parse_composite_mineral(c.component_name, c.value_pct)
                IN  recognized # {} =>
                        /\ SumValues(shares) = Share(c.value_pct, 1)
                        /\ \A k \in 1..Len(shares) :
                              shares[k].v * Cardinality(recognized) =
                                  Share(c.value_pct, 1) *
                                  Cardinality({i \in recognized :
                                                  PartGroup(parts[i]) = shares[k].k})

\* the folded names of a list, in first-seen order
FoldedNames(ms) == CounterKeys([i \in 1..Len(ms) |-> SAME_AS(ms[i].component_name)])

\* the highest value recorded under a folded name
BestOf(ms, name) == Max({m.value_pct : m \in Range(Named(ms, {name}))})

\* the categories left after synonym folding, rock-type suppression and
\* parent/child resolution, each with its best value
Resolved(ms) ==
    LET names == Range(FoldedNames(ms))
        rocks == IF SumPct(SelectSeq(ms, LAMBDA m : m.component_name \notin ROCK_TYPES)) > 30
                 THEN ROCK_TYPES ELSE {}
        dropped(p) ==
            IF p \notin names \/ names \cap PARENT_CHILD(p) = {} THEN {}
            ELSE IF 2 * SumPct(Named(ms, {p})) > 3 * SumPct(Named(ms, PARENT_CHILD(p)))
                 THEN names \cap PARENT_CHILD(p) ELSE {p}
        removed == rocks \cup UNION {dropped(p) : p \in Range(PARENTS)}
        kept == SelectSeq(FoldedNames(ms), LAMBDA n : n \notin removed)
    IN  [k \in 1..Len(kept) |-> [component_name |-> kept[k], value_pct |-> BestOf(ms, kept[k])]]

\* C15: for input values in [0,100], whenever the category sum after synonym
\* folding, rock-type suppression and parent/child resolution exceeds 115,
\* the entries the reconciler returns sum to at most 105.
C15_CeilingAt105 ==
    FixDone =>
        \A sim \in SimIds :
            ( /\ \A m \in Range(FixInput(sim)) : m.value_pct \in 0..100
              /\ SumPct(Resolved(FixInput(sim))) > 115 ) =>
                /\ SumPct(FixOutput(sim)) <= 105
                /\ SumPct(fix_minerals(FixInput(sim))) <= 105

\* a run in which the resolved categories summed to more than 115 and the
\* reconciler cut the list
C15_Witness ==
    /\ FixDone
    /\ \E sim \in SimIds :
          /\ SumPct(Resolved(FixInput(sim))) > 115
          /\ Len(Resolved(FixInput(sim))) >= 3
          /\ FixOutput(sim) # <<>>
          /\ Len(FixOutput(sim)) < Len(Resolved(FixInput(sim)))

\* an entry with its name folded
Folded(m) == [m EXCEPT !.component_name = SAME_AS(@)]

\* C16: the reconciler never fabricates: every entry it returns is an entry
\* of its input with the same value, its name rewritten by synonym folding
\* only.
C16_NothingFabricated ==
    FixDone =>
        \A sim \in SimIds :
            /\ Range(FixOutput(sim)) \subseteq {Folded(m) : m \in Range(FixInput(sim))}
            /\ Range(fix_minerals(FixInput(sim))) \subseteq
                   {Folded(m) : m \in Range(FixInput(sim))}

\* a run in which the reconciler merged several entries of one category, one
\* of them under a folded name
C16_Witness ==
    /\ FixDone
    /\ \E sim \in SimIds :
          \E i, j \in 1..Len(FixInput(sim)) :
              /\ i # j
              /\ Folded(FixInput(sim)[i]).component_name =
                     Folded(FixInput(sim)[j]).component_name
              /\ FixInput(sim)[i].value_pct # FixInput(sim)[j].value_pct
              /\ Folded(FixInput(sim)[i]) # FixInput(sim)[i]
              /\ Folded(FixInput(sim)[i]).component_name \in NamesOf(FixOutput(sim))

\* the names synonym folding rewrites
SynonymNames == {"Anorthosite", "Volcanic Glass", "Feldspar"}

\* C17: the reconciler's output is deduplicated and taxonomy-normalized: at
\* most one entry per canonical name, and no entry under a name that synonym
\* folding rewrites.
C17_OnePerCanonicalName ==
    FixDone =>
        \A sim \in SimIds :
            LET out == fix_minerals(FixInput(sim))
            IN  /\ \A i, j \in 1..Len(out) :
                      out[i].component_name = out[j].component_name => i = j
                /\ \A m \in Range(out) : m.component_name \notin SynonymNames
                /\ Range(FixOutput(sim)) = Range(out)
                /\ Len(FixOutput(sim)) = Len(out)

\* a run whose input held Anorthosite and Plagioclase entries and whose
\* output holds the one Plagioclase entry
C17_Witness ==
    /\ FixDone
    /\ {"Anorthosite", "Plagioclase"} \subseteq NamesOf(FixInput("S001"))
    /\ "Plagioclase" \in NamesOf(FixOutput("S001"))
    /\ Len(FixOutput("S001")) < Len(FixInput("S001"))

\* a finished run of the composition layers of the spec sheet extractor:
\* `sim_data` is the extraction record
ExtractDone == tool = "specsheet_extractor" /\ pc = "done"

\* the values of a dict
Values(d) == {d[i].v : i \in 1..Len(d)}

\* the value a dict holds for a key it has
ValueOf(d, k) == d[CHOOSE i \in 1..Len(d) : d[i].k = k].v

\* the entries populate_mineral_groups computed: the ones it wrote after the
\* entries it loaded
ComputedGroups ==
    SubSeq(files["mineral_groups.json"], Len(mineral_groups) + 1,
           Len(files["mineral_groups.json"]))

\* 100 percent, in the hundredths that hold a value rounded to two decimals
HundredPercent == 100 * 100

\* C18 as stated: every percentage of an output mapping lies in [0, 100]: the
\* values of chemical_composition, mineral_composition and mineral_groups of
\* an extraction record, and every group value the mineral-group aggregation
\* computes.
C18_PercentagesInRange ==
    /\ tool = "specsheet_extractor" =>
           \A v \in Values(sim_data.chemical_composition)
                    \cup Values(sim_data.mineral_composition)
                    \cup Values(sim_data.mineral_groups) : 0 <= v /\ v <= 100
    /\ PopulateDone =>
           \A g \in Range(ComputedGroups) : 0 <= g.value_pct /\ g.value_pct <= HundredPercent

\* C19 as stated: once an entity has mineral data, its mineral_groups mapping
\* has exactly the five NASA groups as keys (a group that was not found is
\* recorded as 0) and no other key.
C19_FiveGroupKeys ==
    /\ (ExtractDone /\ (sim_data.mineral_composition # <<>> \/ sim_data.mineral_groups # <<>>)) =>
           Keys(sim_data.mineral_groups) = Range(NASA_GROUPS)
    /\ PopulateDone =>
           \A sim \in {c.simulant_id : c \in {m \in Range(composition) :
                                                   m.component_type = "mineral"}} :
               {g.group_name : g \in {e \in Range(files["mineral_groups.json"]) :
                                          e.simulant_id = sim}} = Range(NASA_GROUPS)

\* C20 as stated: during the extraction of one record no layer changes the
\* value of an oxide or of a mineral that an earlier layer has set.
C20_EarlierLayerKept ==
    [][ tool = "specsheet_extractor" =>
            /\ \A k \in Keys(sim_data.chemical_composition) :
                   /\ k \in Keys(sim_data'.chemical_composition)
                   /\ ValueOf(sim_data'.chemical_composition, k) =
                          ValueOf(sim_data.chemical_composition, k)
            /\ \A k \in Keys(sim_data.mineral_composition) :
                   /\ k \in Keys(sim_data'.mineral_composition)
                   /\ ValueOf(sim_data'.mineral_composition, k) =
                          ValueOf(sim_data.mineral_composition, k) ]_vars

\* C28 as stated: when the total-ceiling step fires, what it drops is the
\* smallest excess: no entry it drops has a value greater than an entry it
\* keeps.
C28_DropsSmallest ==
    FixDone =>
        \A sim \in SimIds :
            SumPct(Resolved(FixInput(sim))) > 115 =>
                \A d \in Range(Resolved(FixInput(sim))) :
                    d.component_name \notin NamesOf(FixOutput(sim)) =>
                        \A k \in Range(FixOutput(sim)) : d.value_pct <= k.value_pct

\* the records of a list taken in every order
Orders(records) ==
    {[i \in 1..Len(records) |-> records[f[i]]] :
        f \in {g \in [1..Len(records) -> 1..Len(records)] :
                  \A i, j \in 1..Len(records) : g[i] = g[j] => i = j}}

\* aggregate_results applied to the records of a list, one after the other
RECURSIVE AggregateEach(_, _, _)
AggregateEach(agg, simulants, records) ==
    IF records = <<>> THEN agg
    ELSE AggregateEach(aggregate_results(agg, simulants, Head(records)), simulants,
                       Tail(records))

\* the data of an aggregated record the claim is about, a dict taken as the
\* mapping it is
MergedData(r) ==
    [simulant_id |-> r.simulant_id,
     chemical_composition |-> Range(r.chemical_composition),
     mineral_composition |-> Range(r.mineral_composition),
     mineral_groups |-> Range(r.mineral_groups),
     type |-> r.type, nasa_fom_score |-> r.nasa_fom_score, bulk_density |-> r.bulk_density]

\* C30 as stated: the aggregated record of an entity does not depend on the
\* order in which its extraction records are merged: the records still to be
\* aggregated give the same compositions and scalar fields in every order.
C30_MergeOrderFree ==
    (tool = "update_database_full" /\ pc = "processing") =>
        \A q \in Orders(pending) :
            {MergedData(r) : r \in Range(AggregateEach(aggregated_data, database, q))} =
            {MergedData(r) : r \in Range(AggregateEach(aggregated_data, database, pending))}

\* the identifiers of the records of a table are pairwise distinct
UniqueIds(table, id) ==
    \A i, j \in 1..Len(table) : table[i][id] = table[j][id] => i = j

\* C29 as stated: the tables start with unique identifiers, and after the
\* update_* calls of the updaters and after a mineral-group population run
\* the identifiers within each table, in memory and on disk, are still
\* pairwise distinct.
C29_IdsDistinct ==
    tool \in Updaters \cup {"populate_mineral_groups"} =>
        /\ UniqueIds(composition, "composition_id")
        /\ UniqueIds(chemicals, "composition_id")
        /\ UniqueIds(mineral_groups, "group_id")
        /\ UniqueIds(load_json("composition.json"), "composition_id")
        /\ UniqueIds(load_json("chemical_composition.json"), "composition_id")
        /\ UniqueIds(load_json("mineral_groups.json"), "group_id")

\* C24 as stated: a batch run in which the processing of a simulant raised
\* still runs to its end, and the tally it ends with counts every simulant:
\* successes, skips (no documents, no text) and errors add up to the number
\* of simulants in the batch.
C24_BatchCompletes ==
    tool = "batch_extract" =>
        /\ pc # "crashed"
        /\ pc \in {"json_saved", "done"} =>
               /\ stats.success + stats.no_documents + stats.no_text + stats.errors =
                      Len(database)
               /\ Len(all_results) = Len(database)

\* the extractions of the sources that gave a text and for which the call
\* returned a JSON object that holds something, in source order
Succeeded(srcs) ==
    LET good == SelectSeq(srcs, LAMBDA x : /\ x.text # ""
                                           /\ x.reply.kind = "object"
                                           /\ x.reply.value # EmptyDict)
    IN  [i \in 1..Len(good) |-> WithSource(good[i].reply.value, good[i])]

\* C25 as stated: a failure while handling one source is caught, contributes
\* no data and does not stop the sources after it: the method does not
\* raise, and the extractions it has collected are exactly those of the
\* sources handled so far that succeeded, in source order.
C25_FailuresSkipped ==
    tool = "claude_extractor" =>
        /\ pc # "raised"
        /\ extractions = Succeeded(SubSeq(sources, 1, idx - 1))

\* the sources give different values and none of them a strict majority
NoMajority(values) ==
    /\ Len(values) >= 2
    /\ \A i \in 1..Len(values) : 2 * Count(values, values[i]) <= Len(values)

\* the values the documents still to be aggregated report for a key of a
\* composition dict of a simulant, in document order
Reports(sim_id, dict, key) ==
    LET recs == SelectSeq(pending, LAMBDA r : /\ Truthy(r.name)
                                              /\ find_simulant_id(database, r.name) = sim_id
                                              /\ key \in Keys(r[dict]))
    IN  [i \in 1..Len(recs) |-> ValueOf(recs[i][dict], key)]

\* C26 as stated: when the sources of a field or of a composition category
\* differ and no value has a strict majority, aggregation gives a
\* review-required determination and no value: voting sends the field to
\* review and does not auto-fill it, the batch aggregation and the merge of
\* the documents of a simulant hold no value for it.
C26_NoGuessOnDisagreement ==
    /\ (tool = "ai_data_pipeline" /\ pc = "partitioned" /\ ByVoting) =>
          \A f \in DOMAIN validation_results :
              NoMajority(Candidates(f)) =>
                  /\ f \in DOMAIN review_required
                  /\ f \notin DOMAIN auto_fill
    /\ (tool = "batch_extract" /\ all_results # <<>>) =>
          \A f \in Fields :
              NoMajority(BatchValues(extractions, f)) =>
                  f \notin DOMAIN all_results[1].aggregated
    /\ (tool = "update_database_full" /\ pc = "processing" /\ aggregated_data = <<>>) =>
          \A r \in Range(AggregateEach(aggregated_data, database, pending)) :
              \A dict \in {"chemical_composition", "mineral_composition", "mineral_groups"} :
                  \A key \in Keys(r[dict]) :
                      ~NoMajority(Reports(r.simulant_id, dict, key))

\* the place of a layer in the order the claim gives: positional table
\* parsing, multi-line header/value block parsing, loose inline regex
ClaimedRank(layer) ==
    CASE layer = "table" -> 1
      [] layer = "block" -> 2
      [] layer = "inline" -> 3

\* C27 as stated: within a category the layers are attempted in the order
\* table, block, inline, and a layer after the first is attempted only when
\* the category holds fewer than its threshold (5 oxides, 3 minerals).
C27_LayerOrder ==
    tool = "specsheet_extractor" =>
        \A cat \in {"oxides", "minerals"} :
            LET a == attempted[cat]
                threshold == IF cat = "oxides" THEN 5 ELSE 3
            IN  /\ \A i, j \in 1..Len(a) :
                      i < j => ClaimedRank(a[i].layer) < ClaimedRank(a[j].layer)
                /\ \A i \in 2..Len(a) : a[i].held < threshold

\* the (category, value) pairs a document offers the layers of a category
Offered(pairings, captures, tables) ==
    UNION {Range(pairings[i]) : i \in 1..Len(pairings)}
    \cup UNION {{Item(captures[i].k, v) : v \in Range(captures[i].v)} : i \in 1..Len(captures)}
    \cup UNION {Range(tables[i]) : i \in 1..Len(tables)}

\* the (name, value) pairs the store holds for a simulant in a table
Stored(table, sim_id, type, value) ==
    {Item(c.component_name, c[value]) :
        c \in {e \in Range(table) : e.simulant_id = sim_id /\ e.component_type = type}}

\* C21 as stated: a category for which nothing was matched is absent from the
\* record and from the store, and a category measured as 0 is kept with the
\* value 0: the record holds only pairs the document offers, and after the
\* minerals and oxides of a record are stored the store holds exactly the
\* record's pairs for the simulant, the zeros included.
C21_ZeroKeptAbsentUnset ==
    /\ [](ExtractDone =>
            /\ Range(sim_data.chemical_composition) \subseteq
                   Offered(doc.oxide_rows, doc.oxide_text, doc.oxide_tables)
            /\ Range(sim_data.mineral_composition) \subseteq
                   Offered([i \in 1..Len(doc.mineral_rows) |-> doc.mineral_rows[i].pairs],
                           doc.mineral_text, doc.mineral_tables))
    /\ [][ (tool = "update_composition_from_pdfs" /\ pc = "processing" /\ pending # <<>>
            /\ pending' = Tail(pending)) =>
               LET data == Head(pending)
                   sim_id == find_simulant_id(database, data.name)
               IN  (Truthy(data.name) /\ sim_id # None) =>
                       /\ data.mineral_composition # <<>> =>
                              Stored(composition', sim_id, "mineral", "value_pct") =
                                  {Item(Title(m.k), m.v) : m \in Range(data.mineral_composition)}
                       /\ data.chemical_composition # <<>> =>
                              Stored(chemicals', sim_id, "oxide", "value_wt_pct") =
                                  Range(data.chemical_composition) ]_vars

\* the property is unset, or set to a number from lo to hi
UnsetOrWithin(x, lo, hi) == x = <<>> \/ (lo <= x[1] /\ x[1] <= hi)

\* C22 as stated: every numeric physical property of a finished extraction
\* record lies in its plausible range (density 0.5 to 5 g/cm3, here in tenths;
\* median particle size up to 10000 micrometres; friction angle 0 to 90
\* degrees; cohesion not negative), so that a capture outside the range has
\* left the property unset.
C22_PhysicalInRange ==
    ExtractDone =>
        /\ UnsetOrWithin(sim_data.density_mean, 5, 50)
        /\ UnsetOrWithin(sim_data.particle_size_median, 1, 10000)
        /\ UnsetOrWithin(sim_data.friction_angle_deg, 0, 90)
        /\ sim_data.cohesion_kpa = <<>> \/ sim_data.cohesion_kpa[1] >= 0

\* the score C23 states for a record
StatedConfidence(data) ==
    LET Tier(n, one, three, five) == IF n >= 5 THEN five
                                     ELSE IF n >= 3 THEN three
                                     ELSE IF n >= 1 THEN one ELSE 0
        Bonus(present) == IF present THEN 5 ELSE 0
        total == SumValues(data.chemical_composition)
        sum == (IF data.name # <<>> THEN 20 ELSE 0)
               + (IF data.type # "" THEN 10 ELSE 0)
               + Tier(Len(data.chemical_composition), 5, 15, 25)
               + Tier(Len(data.mineral_composition), 5, 12, 20)
               + Bonus(data.density_mean # <<>>)
               + Bonus(data.particle_size_median # <<>>)
               + Bonus(data.nasa_fom_score # <<>>)
               + Bonus(data.cohesion_kpa # <<>>)
               + Bonus(90 <= total /\ total <= 105)
    IN  IF sum > 100 THEN 100 ELSE IF sum < 0 THEN 0 ELSE sum

\* C23 as stated: the confidence of a finished extraction record is the
\* stated sum, clamped to [0,100]: 20 for a name, 10 for a type, 5/15/25 for
\* 1/3/5 oxides, 5/12/20 for 1/3/5 minerals, 5 each for density, median
\* particle size, a quality score and cohesion, and 5 for an oxide total in
\* [90,105].
C23_ConfidenceFormula ==
    ExtractDone => sim_data.extraction_confidence = StatedConfidence(sim_data)

====
